---- MODULE Spec2Model ----
(***************************************************************************)
(* scrapli_replay: the session record/replay engine                        *)
(* (scrapli_replay/replay/replay.py) and the protocol simulation server    *)
(* (scrapli_replay/server/server.py).                                      *)
(*                                                                         *)
(* Text and bytes are sequences of symbols.  A symbol stands for one       *)
(* character (or one fixed run of characters):                             *)
(*   "a", "b"     ordinary characters                                      *)
(*   "S1", "S2"   two scrapli-cfg session names, scrapli_cfg_<digits>      *)
(*   "N"          the text __SCRAPLI_CFG_SESSION_NAME__                    *)
(*   "CR"         the byte \r                                              *)
(*   "x"          a byte that is not valid UTF-8                           *)
(*   "E"          an ANSI escape sequence                                  *)
(*   "REDACTED"   the text REDACTED                                        *)
(***************************************************************************)
EXTENDS Integers, Sequences, FiniteSets, TLC

\* ------------------------------------------------------------------ bounds
\* most reads of the device the client makes during one recorded session
MaxDeviceBytes == 2
\* most channel writes the client makes during one recorded session
MaxRecordWrites == 2
\* wrong credentials a client sends in a row at one hidden step of a dialog
MaxMismatches == 2
\* most client sessions one server serves at a time
MaxSessions == 2
\* connections one ScrapliReplay wraps
MaxConnections == 2
\* reads and writes of one connection while several are recorded
MaxChannelCalls == 2
\* prompts the telnet authentication answers
MaxAuthSteps == 3
\* drivers one test opens when the names of its instances are compared
MaxOpens == 3

\* ------------------------------------------------------------- text model
CfgNames == {"S1", "S2"}
\* bytes the device may send in one read
DeviceBytes == {"a", "CR", "x", "S1"}
\* the writes a client may make while a session is recorded: the channel
\* input and the redacted flag
Writes == { <<<<"a">>, FALSE>>, <<<<"b", "S1">>, FALSE>>, <<<<"a">>, TRUE>> }
\* Python's None as an expected input (equal to no str)
NoneInput == <<"__None__">>
REDACTED == <<"REDACTED">>
EmptyText == << >>

\* re.search(SCRAPLI_CFG_SESSION_PATTERN, s) is not None
SearchCfgSession(s) == \E i \in 1..Len(s) : s[i] \in CfgNames

\* re.sub(SCRAPLI_CFG_SESSION_PATTERN, "__SCRAPLI_CFG_SESSION_NAME__", s)
SubCfgSession(s) == [i \in 1..Len(s) |-> IF s[i] \in CfgNames THEN "N" ELSE s[i]]

\* bytes.replace(b"\r", b"")
StripCR(buf) == SelectSeq(buf, LAMBDA c : c # "CR")

\* Channel._strip_ansi(buf)
StripAnsi(buf) == SelectSeq(buf, LAMBDA c : c # "E")

\* bytes.decode() raises UnicodeDecodeError on these
DecodeFails(bytes) == \E i \in 1..Len(bytes) : bytes[i] = "x"

\* bytes.decode(errors="ignore")
DecodeIgnore(bytes) == SelectSeq(bytes, LAMBDA c : c # "x")

\* str.encode(): a character and its UTF-8 bytes go by the same symbol, and
\* every str encodes ("x" is no character, so no text holds it)
Encode(text) == text

\* ------------------------------------------------------------------ BytesIO
\* a BytesIO object: its bytes and its stream position
NewBytesIO == [data |-> << >>, pos |-> 0]

BytesIOTell(io) == io.pos

Min(a, b) == IF a < b THEN a ELSE b

\* BytesIO.write(buf): overwrite/extend at the stream position, advance it
BytesIOWrite(io, buf) ==
    [data |-> SubSeq(io.data, 1, io.pos) \o buf
                \o SubSeq(io.data, io.pos + Len(buf) + 1, Len(io.data)),
     pos |-> io.pos + Len(buf)]

\* BytesIO.read(size): the bytes read (all that remain when size < 0)
BytesIOReadBytes(io, size) ==
    IF size < 0 THEN SubSeq(io.data, io.pos + 1, Len(io.data))
    ELSE SubSeq(io.data, io.pos + 1, Min(io.pos + size, Len(io.data)))

\* BytesIO.read(size): the stream afterwards
BytesIOReadAdvance(io, size) ==
    [io EXCEPT !.pos = io.pos + Len(BytesIOReadBytes(io, size))]

\* --------------------------------------------------------------- exceptions
NoError == "none"
ScrapliReplayException == "ScrapliReplayException"
ScrapliReplayConnectionProfileError == "ScrapliReplayConnectionProfileError"
ScrapliReplayExpectedInputError == "ScrapliReplayExpectedInputError"
ScrapliReplayServerError == "ScrapliReplayServerError"
\* built-in exceptions, none of them a ScrapliReplayException
StopIteration == "StopIteration"
UnicodeDecodeError == "UnicodeDecodeError"
KeyError == "KeyError"
AttributeError == "AttributeError"
IndexError == "IndexError"
TypeError == "TypeError"
ScrapliConnectionError == "ScrapliConnectionError"
\* what pytest.skip raises
Skipped == "Skipped"

\* isinstance(e, ScrapliReplayException)
IsScrapliReplayException(e) ==
    e \in {ScrapliReplayException, ScrapliReplayConnectionProfileError,
           ScrapliReplayExpectedInputError, ScrapliReplayServerError}

\* ------------------------------------------------------ connection profile
\* the attributes of a scrapli driver that the engine reads
BaseConn ==
    [host |-> "h1", port |-> 22, auth_username |-> "u1", auth_password |-> "pw1",
     auth_private_key |-> "", auth_private_key_passphrase |-> "",
     auth_bypass |-> FALSE, transport_name |-> "system",
     is_network_driver |-> TRUE, auth_secondary |-> "sec1", comms_ansi |-> FALSE,
     logging_uid |-> << >>]

\* BaseConn with one attribute changed
OtherConns ==
    { [BaseConn EXCEPT !.host = "h2"],
      [BaseConn EXCEPT !.port = 23],
      [BaseConn EXCEPT !.auth_username = "u2"],
      [BaseConn EXCEPT !.auth_password = ""],
      [BaseConn EXCEPT !.auth_password = "pw2"],
      [BaseConn EXCEPT !.auth_private_key = "k1"],
      [BaseConn EXCEPT !.auth_private_key_passphrase = "pp1"],
      [BaseConn EXCEPT !.auth_bypass = TRUE],
      [BaseConn EXCEPT !.transport_name = "ssh2"],
      [BaseConn EXCEPT !.is_network_driver = FALSE],
      [BaseConn EXCEPT !.auth_secondary = ""],
      [BaseConn EXCEPT !.comms_ansi = TRUE] }

\* the connections a test may open while replaying
Conns == {BaseConn} \cup OtherConns

\* bool(s) of a str
Bool(s) == s # ""

create_connection_profile(scrapli_conn) ==
    [host |-> scrapli_conn.host,
     port |-> scrapli_conn.port,
     auth_username |-> scrapli_conn.auth_username,
     auth_password |-> Bool(scrapli_conn.auth_password),
     auth_private_key |-> scrapli_conn.auth_private_key,
     auth_private_key_passphrase |-> Bool(scrapli_conn.auth_private_key_passphrase),
     auth_bypass |-> scrapli_conn.auth_bypass,
     transport |-> scrapli_conn.transport_name,
     auth_secondary |-> IF scrapli_conn.is_network_driver
                        THEN Bool(scrapli_conn.auth_secondary)
                        ELSE FALSE]

\* a comparison of profiles that leaves the port out
ConnectionProfileEqButPort(p, q) == [p EXCEPT !.port = q.port] = q

\* ConnectionProfile.__eq__ (dataclass): every field equal
ConnectionProfileEq(p, q) ==
    /\ p.host = q.host
    /\ p.port = q.port
    /\ p.auth_username = q.auth_username
    /\ p.auth_password = q.auth_password
    /\ p.auth_private_key = q.auth_private_key
    /\ p.auth_private_key_passphrase = q.auth_private_key_passphrase
    /\ p.auth_bypass = q.auth_bypass
    /\ p.transport = q.transport
    /\ p.auth_secondary = q.auth_secondary

\* ------------------------------------------------- ScrapliReplayInstance
\* an iterator over a list: not yet created, or the items it has left
NoIterator == [created |-> FALSE, rest |-> << >>]
Iter(items) == [created |-> TRUE, rest |-> items]

\* the {} that ScrapliReplay.replay_session.get(instance_name, {}) gives
NoSession ==
    [present |-> FALSE,
     connection_profile |-> create_connection_profile(BaseConn),
     interactions |-> << >>]

ScrapliReplayInstance(replay_mode_, connection_profile_, replay_session_) ==
    [replay_mode |-> replay_mode_,
     connection_profile |-> connection_profile_,
     replay_session |-> replay_session_,
     read_log |-> NewBytesIO,
     write_log |-> << >>,
     scrapli_cfg_session |-> EmptyText,
     device_outputs |-> NoIterator,
     scrapli_inputs |-> NoIterator]

\* an instance that was never constructed
NoInstance ==
    ScrapliReplayInstance("NONE", create_connection_profile(BaseConn), NoSession)

\* _common_replay_mode: the error raised, and the instance with its iterators
common_replay_mode_raises(inst) ==
    IF ~inst.replay_session.present THEN KeyError
    ELSE IF ~ConnectionProfileEq(inst.replay_session.connection_profile,
                                 inst.connection_profile)
    THEN ScrapliReplayConnectionProfileError
    ELSE NoError

common_replay_mode(inst) ==
    IF common_replay_mode_raises(inst) # NoError THEN inst
    ELSE [inst EXCEPT
            !.device_outputs =
                Iter([i \in 1..Len(inst.replay_session.interactions) |->
                        inst.replay_session.interactions[i].channel_output]),
            !.scrapli_inputs =
                Iter([i \in 1..Len(inst.replay_session.interactions) |->
                        <<inst.replay_session.interactions[i].expected_channel_input,
                          inst.replay_session.interactions[i].expected_channel_input_redacted>>])]

\* the result of one patched channel call
Result(inst_, ret_, raised_) == [inst |-> inst_, ret |-> ret_, raised |-> raised_]

\* patched_read of _patch_read_replay
patched_read_replay(inst, comms_ansi) ==
    IF inst.device_outputs.rest = << >>
    THEN Result(inst, << >>, ScrapliReplayException)
    ELSE LET out == Encode(Head(inst.device_outputs.rest))
             swap == (\E i \in 1..Len(out) : out[i] = "N")
                        /\ inst.scrapli_cfg_session # EmptyText
             buf == IF swap THEN Encode(inst.scrapli_cfg_session) ELSE out
             inst1 == [inst EXCEPT
                         !.device_outputs.rest = Tail(@),
                         !.scrapli_cfg_session = IF swap THEN EmptyText ELSE @]
         IN Result(inst1, IF comms_ansi THEN StripAnsi(buf) ELSE buf, NoError)

\* an asynchronous replay read that lets the iterator's StopIteration escape
patched_async_read_replay_unwrapped(inst, comms_ansi) ==
    IF inst.device_outputs.rest = << >>
    THEN Result(inst, << >>, StopIteration)
    ELSE patched_read_replay(inst, comms_ansi)

\* patched_read of _patch_async_read_replay
patched_async_read_replay(inst, comms_ansi) ==
    IF inst.device_outputs.rest = << >>
    THEN Result(inst, << >>, ScrapliReplayException)
    ELSE LET out == Encode(Head(inst.device_outputs.rest))
             swap == (\E i \in 1..Len(out) : out[i] = "N")
                        /\ inst.scrapli_cfg_session # EmptyText
             buf == IF swap THEN Encode(inst.scrapli_cfg_session) ELSE out
             inst1 == [inst EXCEPT
                         !.device_outputs.rest = Tail(@),
                         !.scrapli_cfg_session = IF swap THEN EmptyText ELSE @]
         IN Result(inst1, IF comms_ansi THEN StripAnsi(buf) ELSE buf, NoError)

\* a replay write that compares a redacted input as written
patched_write_replay_unredacted(inst, channel_input, redacted) ==
    IF inst.scrapli_inputs.rest = << >>
    THEN Result(inst, << >>, StopIteration)
    ELSE LET expected == Head(inst.scrapli_inputs.rest)
             inst1 == [inst EXCEPT !.scrapli_inputs.rest = Tail(@)]
         IN IF expected = <<SubCfgSession(channel_input), redacted>>
            THEN Result(inst1, << >>, NoError)
            ELSE Result(inst1, << >>, ScrapliReplayExpectedInputError)

\* a replay write that consumes a device output along with the expected input
patched_write_replay_in_lockstep(inst, channel_input, redacted) ==
    IF inst.scrapli_inputs.rest = << >>
    THEN Result(inst, << >>, StopIteration)
    ELSE LET expected == Head(inst.scrapli_inputs.rest)
             inst1 == [inst EXCEPT
                         !.scrapli_inputs.rest = Tail(@),
                         !.device_outputs.rest =
                             IF @ = << >> THEN @ ELSE Tail(@)]
         IN IF expected = <<IF redacted THEN REDACTED
                            ELSE SubCfgSession(channel_input), redacted>>
            THEN Result(inst1, << >>, NoError)
            ELSE Result(inst1, << >>, ScrapliReplayExpectedInputError)

\* a replay write that leaves a mismatched expected input to be compared again
patched_write_replay_keeping_mismatched(inst, channel_input, redacted) ==
    IF inst.scrapli_inputs.rest = << >>
    THEN Result(inst, << >>, StopIteration)
    ELSE LET expected == Head(inst.scrapli_inputs.rest)
             is_cfg == ~redacted /\ SearchCfgSession(channel_input)
             inst1 == [inst EXCEPT
                         !.scrapli_inputs.rest = Tail(@),
                         !.scrapli_cfg_session = IF is_cfg THEN channel_input ELSE @]
         IN IF expected = <<IF redacted THEN REDACTED
                            ELSE SubCfgSession(channel_input), redacted>>
            THEN Result(inst1, << >>, NoError)
            ELSE Result(inst, << >>, ScrapliReplayExpectedInputError)

\* patched_write of _patch_write_replay
patched_write_replay(inst, channel_input, redacted) ==
    IF inst.scrapli_inputs.rest = << >>
    THEN Result(inst, << >>, StopIteration)
    ELSE LET expected_input == Head(inst.scrapli_inputs.rest)[1]
             expected_redacted == Head(inst.scrapli_inputs.rest)[2]
             is_cfg == ~redacted /\ SearchCfgSession(channel_input)
             channel_input_ == IF redacted THEN REDACTED
                               ELSE IF is_cfg THEN SubCfgSession(channel_input)
                               ELSE channel_input
             inst1 == [inst EXCEPT
                         !.scrapli_inputs.rest = Tail(@),
                         !.scrapli_cfg_session = IF is_cfg THEN channel_input ELSE @]
         IN IF ~(expected_input = channel_input_ /\ expected_redacted = redacted)
            THEN Result(inst1, << >>, ScrapliReplayExpectedInputError)
            ELSE Result(inst1, << >>, NoError)

\* a recorder that writes what it read at the start of the read log
patched_read_record_at_start(inst, transport_buf, comms_ansi) ==
    LET buf == StripCR(transport_buf)
        inst1 == [inst EXCEPT !.read_log = BytesIOWrite([@ EXCEPT !.pos = 0], buf)]
    IN Result(inst1, IF comms_ansi THEN StripAnsi(buf) ELSE buf, NoError)

\* patched_read of _patch_read_record, given the bytes the transport returns
patched_read_record(inst, transport_buf, comms_ansi) ==
    LET buf == StripCR(transport_buf)
        inst1 == [inst EXCEPT !.read_log = BytesIOWrite(@, buf)]
    IN Result(inst1, IF comms_ansi THEN StripAnsi(buf) ELSE buf, NoError)

\* a recorder that logs the channel input as written, session names included
patched_write_record_as_written(inst, channel_input, redacted) ==
    Result([inst EXCEPT
              !.write_log = Append(@, <<channel_input, redacted,
                                        BytesIOTell(inst.read_log)>>)],
           << >>, NoError)

\* patched_write of _patch_write_record
patched_write_record(inst, channel_input, redacted) ==
    LET channel_input_ == SubCfgSession(channel_input)
        inst1 == [inst EXCEPT
                    !.write_log = Append(@, <<channel_input_, redacted,
                                              BytesIOTell(inst.read_log)>>)]
    IN Result(inst1, << >>, NoError)

\* the text of a str attribute of the driver
Text(str) == IF str = "" THEN << >> ELSE <<str>>

\* telnet_patch_update_log: the entries up to the first redacted one
UpToFirstRedacted(write_log) ==
    LET redacted == {i \in 1..Len(write_log) : write_log[i][2]}
    IN IF redacted = {} THEN write_log
       ELSE SubSeq(write_log, 1, CHOOSE i \in redacted : \A j \in redacted : i <= j)

\* telnet_patch_update_log: index after the loop over updatedwrite_log, which
\* stops at the first entry whose input is the username and else runs out
IndexOfUsername(updatedwrite_log, auth_username) ==
    LET found == {i \in 1..Len(updatedwrite_log) :
                    updatedwrite_log[i][1] = Text(auth_username)}
    IN IF found = {} THEN Len(updatedwrite_log) - 1
       ELSE (CHOOSE i \in found : \A j \in found : i <= j) - 1

\* telnet_patch_update_log: the error raised, self.write_log[-1] of an empty log
telnet_patch_update_log_raises(inst) ==
    IF inst.write_log = << >> THEN IndexError ELSE NoError

telnet_patch_update_log(inst, auth_username) ==
    IF telnet_patch_update_log_raises(inst) # NoError THEN inst
    ELSE LET updatedwrite_log ==
                 Append(UpToFirstRedacted(inst.write_log),
                        inst.write_log[Len(inst.write_log)])
             index == IndexOfUsername(updatedwrite_log, auth_username)
         IN [inst EXCEPT !.write_log =
                SubSeq(updatedwrite_log, index + 1, Len(updatedwrite_log))]

\* ---------------------------------------------------------- ScrapliReplay
\* bytes.decode() of bytes that decode (DecodeFails tells which do not): the
\* characters of these bytes, which go by the same symbols
Decode(bytes) == bytes

Interaction(channel_output_, expected_channel_input_, redacted_) ==
    [channel_output |-> channel_output_,
     expected_channel_input |-> expected_channel_input_,
     expected_channel_input_redacted |-> redacted_]

\* a slice measured from the start of the read log
slice_size_from_start(read_to_position, previous_read_to_position) ==
    read_to_position

\* _serialize: how many bytes the loop reads for one write-log entry
slice_size(read_to_position, previous_read_to_position) ==
    read_to_position - previous_read_to_position

RECURSIVE serialize_writes(_, _, _, _)
\* _serialize: the loop over instance_write_log
serialize_writes(read_log, write_log, previous_read_to_position, interactions) ==
    IF write_log = << >>
    THEN [read_log |-> read_log,
          previous_read_to_position |-> previous_read_to_position,
          interactions |-> interactions]
    ELSE LET write_input == Head(write_log)[1]
             redacted == Head(write_log)[2]
             read_to_position == Head(write_log)[3]
             size == slice_size(read_to_position, previous_read_to_position)
             channel_bytes_output == BytesIOReadBytes(read_log, size)
             decoded == IF DecodeFails(channel_bytes_output)
                        THEN DecodeIgnore(channel_bytes_output)
                        ELSE Decode(channel_bytes_output)
             channel_output == SubCfgSession(decoded)
         IN serialize_writes(
                BytesIOReadAdvance(read_log, size),
                Tail(write_log),
                read_to_position,
                Append(interactions,
                       Interaction(channel_output,
                                   IF ~redacted THEN write_input ELSE REDACTED,
                                   redacted)))

\* a trailing interaction only for a session without a write
serialize_trailing_without_writes(read_log_len, previous_read_to_position) ==
    previous_read_to_position = 0 /\ read_log_len # 0

\* _serialize: the trailing interaction is added
serialize_trailing(read_log_len, previous_read_to_position) ==
    previous_read_to_position # read_log_len

\* _serialize, for one wrapped instance: the error raised and the session
serialize_instance(inst) ==
    LET read_log_len == BytesIOTell(inst.read_log)
        w == serialize_writes([inst.read_log EXCEPT !.pos = 0], inst.write_log,
                              0, << >>)
        trailing == serialize_trailing(read_log_len, w.previous_read_to_position)
        rest == BytesIOReadBytes(w.read_log, -1)
    IN [raised |-> IF trailing /\ DecodeFails(rest) THEN UnicodeDecodeError
                   ELSE NoError,
        read_log |-> IF trailing THEN BytesIOReadAdvance(w.read_log, -1)
                     ELSE w.read_log,
        session |->
            [present |-> TRUE,
             connection_profile |-> inst.connection_profile,
             interactions |->
                IF trailing /\ ~DecodeFails(rest)
                THEN Append(w.interactions,
                            Interaction(Decode(rest), NoneInput, FALSE))
                ELSE w.interactions]]

\* _serialize: the error raised, if any instance's serialization raises
serialize_raises(instances) ==
    IF \E i \in 1..Len(instances) :
            serialize_instance(instances[i].inst).raised # NoError
    THEN UnicodeDecodeError ELSE NoError

\* _serialize: instance name -> session, in the order of wrapped_instances
serialize(instances) ==
    [i \in 1..Len(instances) |->
        [name |-> instances[i].name,
         session |-> serialize_instance(instances[i].inst).session]]

\* the session file: absent; or holding the dumped sessions; or present and
\* empty, when _serialize raised after open(..., "w") had truncated it
NoFile == [exists |-> FALSE, empty |-> FALSE, sessions |-> << >>]

\* _save
save(instances) ==
    IF serialize_raises(instances) # NoError
    THEN [exists |-> TRUE, empty |-> TRUE, sessions |-> << >>]
    ELSE [exists |-> TRUE, empty |-> FALSE, sessions |-> serialize(instances)]

\* _session_exists
session_exists(file) == file.exists

\* dict.get(instance_name, {}) on the loaded sessions
GetSession(sessions, name) ==
    IF \E i \in 1..Len(sessions) : sessions[i].name = name
    THEN sessions[CHOOSE i \in 1..Len(sessions) : sessions[i].name = name].session
    ELSE NoSession

IsPrefix(p, t) == Len(p) <= Len(t) /\ SubSeq(t, 1, Len(p)) = p

\* inst_name.startswith(instance_name), instance_name being host:port:transport:uid
StartsWith(inst_name, scrapli_conn) ==
    /\ inst_name.host = scrapli_conn.host
    /\ inst_name.port = scrapli_conn.port
    /\ inst_name.transport = scrapli_conn.transport_name
    /\ IsPrefix(scrapli_conn.logging_uid, inst_name.uid \o <<":", inst_name.n>>)

\* an instance name without the count of the similar names
create_instance_name_uncounted(instances, scrapli_conn) ==
    [host |-> scrapli_conn.host,
     port |-> scrapli_conn.port,
     transport |-> scrapli_conn.transport_name,
     uid |-> scrapli_conn.logging_uid,
     n |-> "0"]

create_instance_name(instances, scrapli_conn) ==
    [host |-> scrapli_conn.host,
     port |-> scrapli_conn.port,
     transport |-> scrapli_conn.transport_name,
     uid |-> scrapli_conn.logging_uid,
     n |-> ToString(Cardinality({i \in 1..Len(instances) :
                                     StartsWith(instances[i].name, scrapli_conn)}))]

\* the str an instance name is: host:port:transport:uid:n
NameText(name) ==
    <<name.host, ":", ToString(name.port), ":", name.transport, ":">>
        \o name.uid \o <<":", name.n>>

\* self.wrapped_instances[instance_name] = instance_object
SetInstance(instances, instance_name, instance_object) ==
    IF \E i \in 1..Len(instances) :
           NameText(instances[i].name) = NameText(instance_name)
    THEN [i \in 1..Len(instances) |->
             IF NameText(instances[i].name) = NameText(instance_name)
             THEN [name |-> instance_name, inst |-> instance_object]
             ELSE instances[i]]
    ELSE Append(instances, [name |-> instance_name, inst |-> instance_object])

\* ScrapliReplay.__init__: the error it raises
init_raises(requested, file) ==
    IF requested \notin {"record", "replay", "overwrite"}
    THEN ScrapliReplayException
    ELSE IF session_exists(file) /\ requested \in {"record", "replay"} /\ file.empty
    THEN AttributeError
    ELSE NoError

\* ScrapliReplay.__init__: the replay mode it settles on
init_replay_mode(requested, file) ==
    LET mode1 == IF requested = "record" /\ session_exists(file) THEN "replay"
                 ELSE IF ~session_exists(file) THEN "record"
                 ELSE requested
    IN IF mode1 = "replay"
       THEN IF \A i \in 1..Len(file.sessions) :
                    file.sessions[i].session.interactions # << >>
            THEN "REPLAY" ELSE "RECORD"
       ELSE IF mode1 = "record" THEN "RECORD" ELSE "OVERWRITE"

\* ===================================================== the mock ssh server
\* text is a sequence of tokens: words, " " and "\n"
Whitespace == {" ", "\n"}

RECURSIVE RStrip(_)
\* str.rstrip()
RStrip(data) ==
    IF data # << >> /\ data[Len(data)] \in Whitespace
    THEN RStrip(SubSeq(data, 1, Len(data) - 1))
    ELSE data

\* list[i] of Python, for an index within -len..len-1
PyIndex(list, i) == IF i < 0 THEN list[Len(list) + i + 1] ELSE list[i + 1]

\* list.pop(list.index(item))
PopFirst(list, item) ==
    LET i == CHOOSE j \in 1..Len(list) :
                /\ list[j] = item
                /\ \A k \in 1..(j - 1) : list[k] # item
    IN SubSeq(list, 1, i - 1) \o SubSeq(list, i + 1, Len(list))

\* item in list
InList(list, item) == \E j \in 1..Len(list) : list[j] = item

\* OnOpenState
PRE == "pre_on_open"
POST == "post_on_open"
OnOpenStates == {PRE, POST}

CLOSES_CONNECTION == <<"__CLOSES_CONNECTION__">>

\* the events of a catalog; a field an event type does not carry is empty
StandardEvent(channel_output_, result_privilege_level_, closes_connection_) ==
    [type |-> "standard",
     channel_output |-> channel_output_,
     result_privilege_level |-> result_privilege_level_,
     returns_prompt |-> ~closes_connection_,
     closes_connection |-> closes_connection_,
     event_steps |-> << >>]

InteractiveEvent(result_privilege_level_, event_steps_) ==
    [type |-> "interactive",
     channel_output |-> << >>,
     result_privilege_level |-> result_privilege_level_,
     returns_prompt |-> TRUE,
     closes_connection |-> FALSE,
     event_steps |-> event_steps_]

InteractStep(channel_input_, channel_output_, hidden_input_) ==
    [channel_input |-> channel_input_,
     channel_output |-> channel_output_,
     hidden_input |-> hidden_input_,
     returns_prompt |-> TRUE]

\* Python's None where an event is expected
NoEvent ==
    [type |-> "none", channel_output |-> << >>, result_privilege_level |-> "",
     returns_prompt |-> FALSE, closes_connection |-> FALSE, event_steps |-> << >>]

\* ---------------------------------------------------- collect_data catalogs
PrivilegeLevels == {"exec", "privilege_exec"}

\* "enable" at exec: the command, then the password with echo off
EnableDialog ==
    InteractiveEvent("privilege_exec",
        << InteractStep(<<"en">>, <<"Password:">>, FALSE),
           InteractStep(<<"__AUTH_SECONDARY__">>, <<"prompt", "privilege_exec">>, TRUE) >>)

\* a hand-written dialog whose first step is already a hidden one
LoginDialog ==
    InteractiveEvent("privilege_exec",
        << InteractStep(<<"__REDACTED__">>, <<"Confirm:">>, TRUE),
           InteractStep(<<"y">>, <<"prompt", "privilege_exec">>, FALSE) >>)

\* the events a collection stores for one privilege level and on-open state
CollectedEvents(priv, on_open_state) ==
    [channel_input \in {<<"p">>, <<"w">>, <<"sh">>, <<"exit">>, <<"en">>, <<"dis">>} |->
        CASE channel_input = <<"exit">> ->
                StandardEvent(CLOSES_CONNECTION, priv, TRUE)
          [] channel_input = <<"en">> /\ priv = "exec" -> EnableDialog
          [] channel_input = <<"dis">> ->
                StandardEvent(<<"dis", priv, on_open_state>>, "exec", FALSE)
          [] OTHER ->
                StandardEvent(<<channel_input[1], priv, on_open_state>>, priv, FALSE)]

\* the same with a hand-written dialog added, and two closing events that
\* carry only one of the two closing marks
EditedEvents(priv, on_open_state) ==
    [channel_input \in DOMAIN CollectedEvents(priv, on_open_state)
                        \cup {<<"login">>, <<"quit">>, <<"logout">>} |->
        CASE channel_input = <<"login">> -> LoginDialog
          [] channel_input = <<"quit">> ->
                StandardEvent(<<"bye">>, "privilege_exec", TRUE)
          [] channel_input = <<"logout">> ->
                StandardEvent(CLOSES_CONNECTION, priv, FALSE)
          [] OTHER -> CollectedEvents(priv, on_open_state)[channel_input]]

UnknownOutput(priv, on_open_state) == <<"% Invalid input", priv, on_open_state>>

\* a catalog: what ScrapliCollector.dump writes and BaseServer loads
Catalog(events_, closing_unknown_, on_open_inputs_) ==
    [events |-> events_,
     unknown_events |->
        [priv \in PrivilegeLevels |->
            [on_open_state \in OnOpenStates |->
                IF closing_unknown_ /\ priv = "privilege_exec"
                THEN StandardEvent(UnknownOutput(priv, on_open_state), "exec", TRUE)
                ELSE IF closing_unknown_ /\ on_open_state = POST
                THEN StandardEvent(UnknownOutput(priv, on_open_state),
                                   "privilege_exec", TRUE)
                ELSE StandardEvent(UnknownOutput(priv, on_open_state), priv, FALSE)]],
     initial_privilege_level |-> "exec",
     privilege_level_prompts |->
        [priv \in PrivilegeLevels |-> <<"prompt", priv>>],
     on_open_inputs |-> on_open_inputs_]

\* events, for every privilege level and on-open state
AllCollectedEvents ==
    [priv \in PrivilegeLevels |->
        [on_open_state \in OnOpenStates |-> CollectedEvents(priv, on_open_state)]]

AllEditedEvents ==
    [priv \in PrivilegeLevels |->
        [on_open_state \in OnOpenStates |-> EditedEvents(priv, on_open_state)]]

Catalogs ==
    { Catalog(AllCollectedEvents, FALSE, << <<"p">> >>),
      Catalog(AllCollectedEvents, FALSE, << <<"p">>, <<"w">> >>),
      Catalog(AllEditedEvents, TRUE, << >>),
      Catalog(AllEditedEvents, FALSE, << <<"quit">>, <<"p">> >>) }

\* the mapping without the entry of a privilege level
Without(mapping, priv) == [p \in DOMAIN mapping \ {priv} |-> mapping[p]]

\* catalogs written by hand in which a privilege level that "en" leads to has
\* no events, or no unknown_events
PartialCatalogs ==
    { [Catalog(AllCollectedEvents, FALSE, << <<"p">> >>) EXCEPT
          !.events = Without(@, "privilege_exec")],
      [Catalog(AllCollectedEvents, FALSE, << <<"p">> >>) EXCEPT
          !.unknown_events = Without(@, "privilege_exec")] }

\* a catalog of nothing, where no server runs
NoCatalog ==
    [events |-> << >>, unknown_events |-> << >>, initial_privilege_level |-> "",
     privilege_level_prompts |-> << >>, on_open_inputs |-> << >>]

\* the lines a client may send
Words == {"p", "w", "sh", "exit", "en", "dis", "login", "quit", "logout",
          "scrapli", "y", "zz", "__AUTH_SECONDARY__"}
Lines ==
    {<<word, "\n">> : word \in Words}
        \cup { <<"\n">>, <<" ", "\n">>, <<"sh", " ", "\n">> }

\* ------------------------------------------------- BaseSSHServerSession
\* the channel of a session: what the running call has written to it, its
\* echo setting and whether exit was called on it
NewChan == [writes |-> << >>, echo |-> TRUE, exited |-> FALSE]

\* BaseSSHServerSession.__init__
BaseSSHServerSession(cd) ==
    [hide_input |-> FALSE,
     interacting |-> FALSE,
     interacting_event |-> NoEvent,
     interact_index |-> 0,
     on_open_state |-> PRE,
     on_open_commands_list |-> cd.on_open_inputs,
     current_privilege_level |-> cd.initial_privilege_level,
     chan |-> NewChan]

chan_write(self, text) == [self EXCEPT !.chan.writes = Append(@, text)]
chan_set_echo(self, echo) == [self EXCEPT !.chan.echo = echo]

\* eof_received
eof_received(self) == [self EXCEPT !.chan.exited = TRUE]

\* what a handler leaves: the session, the handlers that ran and the error
Handled(self_, handlers_, raised_) ==
    [self |-> self_, handlers |-> handlers_, raised |-> raised_]

\* collect_data[...][privilege level] is there
HasPrivilegeLevel(mapping, priv) == priv \in DOMAIN mapping

\* a repaint that paints the prompt of the initial privilege level
repaint_prompt_of_initial_level(cd, self) ==
    Handled(chan_write(self, cd.privilege_level_prompts[cd.initial_privilege_level]),
            <<"repaint_prompt">>, NoError)

\* repaint_prompt, with _return_current_prompt
repaint_prompt(cd, self) ==
    IF ~HasPrivilegeLevel(cd.privilege_level_prompts, self.current_privilege_level)
    THEN Handled(self, <<"repaint_prompt">>, KeyError)
    ELSE Handled(
            chan_write(self, cd.privilege_level_prompts[self.current_privilege_level]),
            <<"repaint_prompt">>, NoError)

\* an unknown-input handler that answers for the initial privilege level,
\* before on-open
unknown_event_of_initial_pair(cd, self) ==
    LET event == cd.unknown_events[cd.initial_privilege_level][PRE]
    IN Handled(
          [chan_write(self, event.channel_output) EXCEPT
             !.current_privilege_level = event.result_privilege_level],
          <<"unknown_event">>, NoError)

\* an unknown-input handler that, on closing, resets the session as a closing
\* StandardEvent does
unknown_event_resetting_on_close(cd, self) ==
    IF ~HasPrivilegeLevel(cd.unknown_events, self.current_privilege_level)
    THEN Handled(self, <<"unknown_event">>, KeyError)
    ELSE LET event == cd.unknown_events[self.current_privilege_level][
                                        self.on_open_state]
             written == chan_write(self, event.channel_output)
         IN Handled(
               IF event.closes_connection
               THEN [eof_received(written) EXCEPT
                       !.current_privilege_level = cd.initial_privilege_level,
                       !.on_open_state = PRE,
                       !.on_open_commands_list = cd.on_open_inputs]
               ELSE [written EXCEPT
                       !.current_privilege_level = event.result_privilege_level],
               <<"unknown_event">>, NoError)

\* unknown_event
unknown_event(cd, self) ==
    IF ~HasPrivilegeLevel(cd.unknown_events, self.current_privilege_level)
    THEN Handled(self, <<"unknown_event">>, KeyError)
    ELSE LET event == cd.unknown_events[self.current_privilege_level][
                                        self.on_open_state]
             written == chan_write(self, event.channel_output)
             closed == IF event.closes_connection THEN eof_received(written)
                       ELSE written
         IN Handled(
               [closed EXCEPT
                  !.current_privilege_level = event.result_privilege_level],
               <<"unknown_event">>, NoError)

\* a standard-event handler that never ticks the on-open checklist
standard_event_without_checklist(cd, self, channel_input, event) ==
    Handled(
       [chan_write(self, event.channel_output) EXCEPT
          !.current_privilege_level = event.result_privilege_level],
       <<"standard_event">>, NoError)

\* a standard-event handler that, on closing, leaves the session at the
\* privilege level of the event
standard_event_closing_at_result_level(cd, self, channel_input, event) ==
    IF event.channel_output = CLOSES_CONNECTION \/ event.closes_connection
    THEN Handled(
            [eof_received(chan_write(self, << >>)) EXCEPT
               !.current_privilege_level = event.result_privilege_level,
               !.on_open_state = PRE,
               !.on_open_commands_list = cd.on_open_inputs],
            <<"standard_event">>, NoError)
    ELSE standard_event_without_checklist(cd, self, channel_input, event)

\* a standard-event handler for which one on-open input ends the on-open phase
standard_event_done_at_first_on_open_input(cd, self, channel_input, event) ==
    IF event.channel_output = CLOSES_CONNECTION \/ event.closes_connection
    THEN Handled(
            [eof_received(chan_write(self, << >>)) EXCEPT
               !.current_privilege_level = cd.initial_privilege_level,
               !.on_open_state = PRE,
               !.on_open_commands_list = cd.on_open_inputs],
            <<"standard_event">>, NoError)
    ELSE Handled(
            [chan_write(self, event.channel_output) EXCEPT
               !.current_privilege_level = event.result_privilege_level,
               !.on_open_commands_list =
                   IF InList(@, channel_input) THEN PopFirst(@, channel_input)
                   ELSE @,
               !.on_open_state =
                   IF InList(self.on_open_commands_list, channel_input)
                      \/ self.on_open_commands_list = << >>
                   THEN POST ELSE @],
            <<"standard_event">>, NoError)

\* standard_event
standard_event(cd, self, channel_input, event) ==
    IF event.channel_output = CLOSES_CONNECTION \/ event.closes_connection
    THEN Handled(
            [eof_received(chan_write(self, << >>)) EXCEPT
               !.current_privilege_level = cd.initial_privilege_level,
               !.on_open_state = PRE,
               !.on_open_commands_list = cd.on_open_inputs],
            <<"standard_event">>, NoError)
    ELSE LET written == chan_write(self, event.channel_output)
             on_open_commands_list ==
                 IF InList(self.on_open_commands_list, channel_input)
                 THEN PopFirst(self.on_open_commands_list, channel_input)
                 ELSE self.on_open_commands_list
         IN Handled(
               [written EXCEPT
                  !.current_privilege_level = event.result_privilege_level,
                  !.on_open_commands_list = on_open_commands_list,
                  !.on_open_state = IF on_open_commands_list = << >> THEN POST
                                    ELSE @],
               <<"standard_event">>, NoError)

\* a hidden step that takes any input for the credential
hidden_input_accepted(event_step, channel_input) == FALSE

\* a hidden step that takes the input the catalog records for it as well
hidden_input_mismatch_unless_recorded(event_step, channel_input) ==
    /\ event_step.hidden_input
    /\ channel_input # <<"scrapli">>
    /\ channel_input # event_step.channel_input

\* interactive_event: the input a hidden step takes is not the credential
hidden_input_mismatch(event_step, channel_input) ==
    event_step.hidden_input /\ channel_input # <<"scrapli">>

\* a step that compares every input, the credential of a hidden step too
any_input_mismatch(event_step, channel_input) ==
    IF event_step.hidden_input THEN channel_input # <<"scrapli">>
    ELSE channel_input # event_step.channel_input

\* a step that takes any input for the recorded one
channel_input_accepted(event_step, channel_input) == FALSE

\* interactive_event: the input a step that is not hidden takes is not the
\* recorded one
channel_input_mismatch(event_step, channel_input) ==
    ~event_step.hidden_input /\ channel_input # event_step.channel_input

\* a dialog that never hides the input of its next step
next_input_shown(event_steps, interact_index) == FALSE

\* a dialog that hides the input of every next step
next_input_hidden(event_steps, interact_index) == TRUE

\* interactive_event: the step now current is a hidden one
next_hidden_input(event_steps, interact_index) ==
    PyIndex(event_steps, interact_index).hidden_input

\* interactive_event
interactive_event(cd, self, channel_input) ==
    IF self.interacting_event = NoEvent
    THEN Handled(self, <<"interactive_event">>, ScrapliReplayServerError)
    ELSE LET shown == IF self.hide_input
                      THEN [chan_set_echo(self, TRUE) EXCEPT !.hide_input = FALSE]
                      ELSE self
             event_steps == self.interacting_event.event_steps
             event_step == PyIndex(event_steps, self.interact_index)
             retry == hidden_input_mismatch(event_step, channel_input)
             bail == channel_input_mismatch(event_step, channel_input)
             interact_index == IF retry THEN self.interact_index - 1
                               ELSE self.interact_index
             written ==
                 chan_write([shown EXCEPT !.interact_index = interact_index],
                            PyIndex(event_steps, interact_index).channel_output)
         IN IF bail
            THEN LET unknown ==
                        unknown_event(cd, [shown EXCEPT
                                             !.interacting = FALSE,
                                             !.interacting_event = NoEvent,
                                             !.interact_index = 0])
                 IN Handled(unknown.self,
                            <<"interactive_event">> \o unknown.handlers,
                            unknown.raised)
            ELSE IF interact_index + 1 = Len(event_steps)
            THEN Handled(
                    [written EXCEPT
                       !.current_privilege_level =
                           self.interacting_event.result_privilege_level,
                       !.interacting = FALSE,
                       !.interacting_event = NoEvent,
                       !.interact_index = 0],
                    <<"interactive_event">>, NoError)
            ELSE LET advanced == [written EXCEPT !.interact_index = interact_index + 1]
                 IN Handled(
                       IF next_hidden_input(event_steps, interact_index + 1)
                       THEN [chan_set_echo(advanced, FALSE) EXCEPT !.hide_input = TRUE]
                       ELSE advanced,
                       <<"interactive_event">>, NoError)

\* data_received: the channel input it makes of the data
ChannelInput(data) == IF data = <<"\n">> THEN data ELSE RStrip(data)

\* dict.get(channel_input)
Get(mapping, channel_input) ==
    IF channel_input \in DOMAIN mapping THEN mapping[channel_input] ELSE NoEvent

\* data_received
data_received(cd, self, data) ==
    LET channel_input == ChannelInput(data)
    IN IF self.interacting
       THEN interactive_event(cd, self, channel_input)
       ELSE IF channel_input = <<"\n">>
       THEN repaint_prompt(cd, self)
       ELSE IF ~HasPrivilegeLevel(cd.events, self.current_privilege_level)
       THEN Handled(self, << >>, KeyError)
       ELSE LET current_event ==
                    Get(cd.events[self.current_privilege_level][self.on_open_state],
                        channel_input)
            IN IF current_event # NoEvent
               THEN IF current_event.type = "standard"
                    THEN standard_event(cd, self, channel_input, current_event)
                    ELSE interactive_event(
                            cd,
                            [self EXCEPT !.interacting = TRUE,
                                         !.interacting_event = current_event],
                            channel_input)
               ELSE unknown_event(cd, self)

\* ------------------------------------------------------------------ state
\* ================================================================ collector
\* ------------------------------------------- the driver and the device
\* scrapli_connection.privilege_levels, in the order of its keys
PrivilegeLevelOrder == <<"exec", "privilege_exec">>

default_desired_privilege_level == "privilege_exec"

comms_return_char == <<"\n">>
paging_indicator == <<"--More--">>
paging_escape_string == <<"ESC">>
UNKNOWN_INPUT == <<"__UNKNOWN_INPUT__">>
AUTH_SECONDARY == <<"__AUTH_SECONDARY__">>
None == [none |-> TRUE]

\* the prompt of a privilege level
Prompt(priv) == IF priv = "exec" THEN ">" ELSE "#"

\* an on-open routine: whether it acquires the default privilege level
\* first, and the commands it sends
Routine(acquires_, commands_) == [acquires |-> acquires_, commands |-> commands_]

\* the on-open routines a driver may have
OnOpenRoutines ==
    { Routine(TRUE, << >>), Routine(TRUE, << <<"tl0">> >>),
      Routine(TRUE, << <<"tl0">>, <<"tw">> >>),
      Routine(FALSE, << >>), Routine(FALSE, << <<"tl0">> >>) }

\* the on-close routine of the driver: the commands it sends
OnCloseRoutine == << <<"exit">> >>

\* the commands that make a device close the connection
ClosingInputs ==
    { {<<"exit">>}, {<<"exit">>, <<"show">>}, {<<"exit">>, UNKNOWN_INPUT},
      {<<"exit">>, <<"tl0">>} }

\* no connection, no device
NoDevice ==
    [alive |-> FALSE, privilege |-> "exec", paging_disabled |-> FALSE,
     on_open |-> FALSE, opened_with_on_open |-> FALSE,
     on_open_routine |-> Routine(FALSE, << >>), closing |-> {}]

\* a device not yet connected to, driven by a driver whose on_open the
\* collector has set to None
Device(on_open_routine_, closing_) ==
    [NoDevice EXCEPT !.on_open_routine = on_open_routine_, !.closing = closing_]

\* ------------------------------------------------------ ScrapliCollector
CollectorStandardEvent(channel_output_, result_privilege_level_, returns_prompt_,
                       closes_connection_) ==
    [channel_output |-> channel_output_,
     result_privilege_level |-> result_privilege_level_,
     returns_prompt |-> returns_prompt_,
     closes_connection |-> closes_connection_]

CollectorInteractStep(channel_input_, channel_output_, hidden_input_,
                      returns_prompt_) ==
    [channel_input |-> channel_input_, channel_output |-> channel_output_,
     hidden_input |-> hidden_input_, returns_prompt |-> returns_prompt_]

CollectorInteractiveEvent(result_privilege_level_, event_steps_) ==
    [result_privilege_level |-> result_privilege_level_,
     event_steps |-> event_steps_]

\* a dict without keys
EmptyDict == [x \in {} |-> None]

\* mapping[key] = value
SetItem(mapping, key, value) ==
    [x \in DOMAIN mapping \cup {key} |-> IF x = key THEN value ELSE mapping[x]]

\* ScrapliCollector.__init__, for a driver with these privilege levels and the
\* channel_inputs to collect; no interact_events
ScrapliCollector(channel_inputs_) ==
    [channel_inputs |-> channel_inputs_,
     on_open_enabled |-> FALSE,
     on_open_inputs |-> << >>,
     on_close_inputs |-> << >>,
     collected_priv_prompts |-> FALSE,
     initial_privilege_level |-> "",
     privilege_level_prompts |-> [priv \in PrivilegeLevels |-> ""],
     privilege_escalate_inputs |-> << >>,
     privilege_deescalate_inputs |-> << <<"disable">> >>,
     interact_privilege_escalations |->
        << << <<<<"enable">>, <<"Password:">>, FALSE>>,
              <<AUTH_SECONDARY, <<"#">>, TRUE>> >> >>,
     events |-> [priv \in PrivilegeLevels |->
                    [key \in OnOpenStates |-> EmptyDict]],
     unknown_events |-> [priv \in PrivilegeLevels |->
                            [key \in OnOpenStates |-> None]],
     all_expected_patterns |-> <<paging_indicator>>,
     captured_writes |-> << >>,
     \* where the calls of open(), collect() and dump() stand
     pc |-> "constructed", pass |-> 1, stage |-> 1, k |-> 1,
     raised |-> NoError,
     \* what dump() has written
     dumped |-> None]

\* no collector was made
NoCollector == [ScrapliCollector(<< >>) EXCEPT !.pc = "none"]

\* the collector and the device it drives, as one value
Both(collector_, device_) == [collector |-> collector_, device |-> device_]

\* ScrapliCollectorChannel.write, once for each of the inputs
Written(s, inputs) == [s EXCEPT !.collector.captured_writes = @ \o inputs]

\* channel.get_prompt: a return is sent and the prompt read
get_prompt(s) == Written(s, <<comms_return_char>>)

\* scrapli's acquire_priv: the prompt is read, then the level is changed with
\* "enable" and the secondary password, or with "disable"
acquire_priv(s, priv_level) ==
    LET s1 == get_prompt(s)
    IN IF s1.device.privilege = priv_level THEN s1
       ELSE IF priv_level = "privilege_exec"
       THEN [Written(s1, << <<"enable">>, comms_return_char, <<"sec1">>,
                            comms_return_char >>)
                EXCEPT !.device.privilege = priv_level]
       ELSE [Written(s1, << <<"disable">>, comms_return_char >>)
                EXCEPT !.device.privilege = priv_level]

\* the driver's on-open routine: the default privilege level is acquired, if
\* the routine does that, and each command sent with a return; paging is off
\* once a command was sent
standard_on_open(s) ==
    LET s1 == IF s.device.on_open_routine.acquires
              THEN acquire_priv(s, default_desired_privilege_level)
              ELSE s
        cmds == s1.device.on_open_routine.commands
        sent == [i \in 1..(2 * Len(cmds)) |->
                    IF i % 2 = 1 THEN cmds[(i + 1) \div 2] ELSE comms_return_char]
    IN [Written(s1, sent) EXCEPT !.device.paging_disabled = @ \/ cmds # << >>]

\* the driver's on-close routine: each command is sent with a return, and the
\* device closes the connection
standard_on_close(s) ==
    LET s1 == acquire_priv(s, default_desired_privilege_level)
        cmds == OnCloseRoutine
        sent == [i \in 1..(2 * Len(cmds)) |->
                    IF i % 2 = 1 THEN cmds[(i + 1) \div 2] ELSE comms_return_char]
    IN [Written(s1, sent) EXCEPT !.device.alive = FALSE]

\* _get_current_privilege_level_name: the state after get_prompt; the name is
\* the device's privilege level
get_current_privilege_level_name(s) == get_prompt(s)

\* scrapli_connection.open(): the device is at exec with paging on; the
\* on-open routine runs if the driver has one
scrapli_connection_open(s) ==
    LET s1 == [s EXCEPT !.device.alive = TRUE,
                        !.device.privilege = "exec",
                        !.device.paging_disabled = FALSE,
                        !.device.opened_with_on_open = s.device.on_open]
    IN IF s.device.on_open THEN standard_on_open(s1) ELSE s1

\* ScrapliCollector.open
collector_open(s) ==
    LET s1 == scrapli_connection_open(s)
    IN IF s1.collector.initial_privilege_level = ""
       THEN [get_current_privilege_level_name(s1) EXCEPT
                !.collector.initial_privilege_level = s1.device.privilege]
       ELSE s1

\* ScrapliCollector.close: scrapli_connection.close()
collector_close(s) == [s EXCEPT !.device.alive = FALSE]

\* channel.send_input_and_read: the input and a return are written; the
\* device closes the connection (ScrapliConnectionError) or answers
send_input_and_read(s, channel_input) ==
    LET s1 == Written(s, <<channel_input, comms_return_char>>)
        closes == channel_input \in s.device.closing
        pages == channel_input = <<"show">> /\ ~s.device.paging_disabled
        privilege == IF channel_input = <<"disable">> THEN "exec"
                     ELSE s.device.privilege
    IN IF closes
       THEN [s |-> [s1 EXCEPT !.device.alive = FALSE],
             raised |-> ScrapliConnectionError, raw_output |-> << >>]
       ELSE [s |-> [s1 EXCEPT !.device.privilege = privilege,
                              !.device.paging_disabled =
                                  @ \/ channel_input = <<"tl0">>],
             raised |-> NoError,
             raw_output |-> <<"\n">> \o channel_input \o
                            (IF pages THEN paging_indicator
                             ELSE <<Prompt(privilege)>>)]

\* x in raw_output, for a pattern of one symbol
Contains(raw_output, pattern) ==
    \E i \in 1..Len(raw_output) : <<raw_output[i]>> = pattern

\* _strip_leading_newline
strip_leading_newline(channel_output) ==
    IF channel_output # << >> /\ Head(channel_output) = "\n"
    THEN Tail(channel_output) ELSE channel_output

\* _collect_privilege_prompts and _extend_all_expected_prompts
collect_privilege_prompts(s) ==
    LET s1 == get_prompt(acquire_priv(s, PrivilegeLevelOrder[1]))
        s2 == get_prompt(acquire_priv(s1, PrivilegeLevelOrder[2]))
    IN [s2 EXCEPT
          !.collector.privilege_level_prompts =
              [priv \in PrivilegeLevels |-> Prompt(priv)],
          !.collector.collected_priv_prompts = TRUE,
          !.collector.all_expected_patterns =
              @ \o [i \in 1..Len(PrivilegeLevelOrder) |->
                       <<Prompt(PrivilegeLevelOrder[i])>>]]

\* list[-n:]
LastN(list, n) ==
    IF n = 0 THEN list ELSE SubSeq(list, Len(list) - n + 1, Len(list))

\* list.reverse()
Reverse(list) == [i \in 1..Len(list) |-> list[Len(list) + 1 - i]]

\* list[1::2]
EveryOther(list) == [i \in 1..(Len(list) \div 2) |-> list[2 * i]]

\* _collect_on_open_inputs
collect_on_open_inputs(s) ==
    LET s1 == acquire_priv(s, default_desired_privilege_level)
        starting_write_log_count == Len(s1.collector.captured_writes)
        s2 == standard_on_open(s1)
        ending_write_log_count == Len(s2.collector.captured_writes)
        write_log_slice == ending_write_log_count - starting_write_log_count
        on_open_writes == LastN(s2.collector.captured_writes, write_log_slice)
    IN [s2 EXCEPT !.collector.on_open_inputs = EveryOther(Reverse(on_open_writes))]

\* _collect_on_close_inputs: the connection has closed, get_prompt raises
\* ScrapliConnectionError, and the collector opens it again
collect_on_close_inputs(s) ==
    LET s1 == acquire_priv(s, default_desired_privilege_level)
        starting_write_log_count == Len(s1.collector.captured_writes)
        s2 == standard_on_close(s1)
        ending_write_log_count == Len(s2.collector.captured_writes)
        write_log_slice == ending_write_log_count - starting_write_log_count
        on_close_writes == LastN(s2.collector.captured_writes, write_log_slice)
        s3 == [s2 EXCEPT !.collector.on_close_inputs =
                            EveryOther(Reverse(on_close_writes))]
    IN IF s3.device.alive THEN get_prompt(s3) ELSE collector_open(s3)

\* every event goes to the first bucket
on_open_enabled_key_of_first_pass(s) == PRE

\* the key of the bucket events are stored in
on_open_enabled_key(s) == IF s.collector.on_open_enabled THEN POST ELSE PRE

\* an event that is recorded as answered, and as returning the prompt
closes_connection_event_as_answered(result_privilege_level) ==
    CollectorStandardEvent(CLOSES_CONNECTION, result_privilege_level, TRUE, FALSE)

\* the event recorded when the input closed the connection
closes_connection_event(result_privilege_level) ==
    CollectorStandardEvent(CLOSES_CONNECTION, result_privilege_level, FALSE, TRUE)

\* the body of the loops of _collect_standard_event and
\* _collect_unknown_events: the input is sent at priv_level and the event made
collected_event(s, channel_input, priv_level) ==
    LET s1 == acquire_priv(s, priv_level)
        sent == send_input_and_read(s1, channel_input)
        closed == sent.raised = ScrapliConnectionError
        paged == ~closed /\ Contains(sent.raw_output, paging_indicator)
        s2 == IF closed THEN collector_open(sent.s)
              ELSE IF paged
              THEN Written(sent.s, <<paging_escape_string, comms_return_char>>)
              ELSE sent.s
        s3 == get_current_privilege_level_name(s2)
        result_privilege_level == s2.device.privilege
    IN [s |-> s3,
        event |-> IF closed THEN closes_connection_event(result_privilege_level)
                  ELSE CollectorStandardEvent(
                           strip_leading_newline(sent.raw_output),
                           result_privilege_level, ~paged, FALSE)]

\* _collect_standard_event, one privilege level of the loop
collect_standard_event_at(s, key, channel_input, priv_level) ==
    LET c == collected_event(s, channel_input, priv_level)
    IN [c.s EXCEPT !.collector.events[priv_level][key] =
                       SetItem(@, channel_input, c.event)]

\* _collect_standard_event
collect_standard_event(s, channel_input) ==
    LET key == on_open_enabled_key(s)
    IN collect_standard_event_at(
           collect_standard_event_at(s, key, channel_input, PrivilegeLevelOrder[1]),
           key, channel_input, PrivilegeLevelOrder[2])

\* the unknown event is stored in place of the buckets of the level
collect_unknown_events_in_place_of_buckets(s, key, priv_level) ==
    LET c == collected_event(s, UNKNOWN_INPUT, priv_level)
    IN [c.s EXCEPT !.collector.unknown_events[priv_level] = c.event]

\* _collect_unknown_events, one privilege level of the loop
collect_unknown_events_at(s, key, priv_level) ==
    LET c == collected_event(s, UNKNOWN_INPUT, priv_level)
    IN [c.s EXCEPT !.collector.unknown_events[priv_level][key] = c.event]

\* _collect_unknown_events
collect_unknown_events(s) ==
    LET key == on_open_enabled_key(s)
    IN collect_unknown_events_at(
           collect_unknown_events_at(s, key, PrivilegeLevelOrder[1]),
           key, PrivilegeLevelOrder[2])

\* _collect_interactive_event for "enable", one privilege level of the loop:
\* at exec the device asks for the password and the hidden step follows, at
\* privilege_exec it answers with the prompt and the loop breaks
collect_interactive_event_at(s, key, priv_level) ==
    LET s1 == acquire_priv(s, priv_level)
        s2 == Written(s1, << <<"enable">>, comms_return_char >>)
        asked == CollectorInteractStep(<<"enable">>, <<"enable", "Password:">>,
                                       FALSE, TRUE)
        hidden == CollectorInteractStep(AUTH_SECONDARY, <<"#">>, TRUE, TRUE)
        answered == CollectorInteractStep(<<"enable">>, <<"enable", "#">>,
                                          FALSE, TRUE)
        s3 == IF priv_level = "exec"
              THEN Written(s2, << <<"sec1">>, comms_return_char >>)
              ELSE s2
        s4 == get_current_privilege_level_name(
                  [s3 EXCEPT !.device.privilege = "privilege_exec"])
    IN [s4 EXCEPT !.collector.events[priv_level][key] =
            SetItem(@, <<"enable">>,
                    CollectorInteractiveEvent(
                        "privilege_exec",
                        IF priv_level = "exec" THEN <<asked, hidden>>
                        ELSE <<answered>>))]

\* _collect_interactive_event
collect_interactive_event(s) ==
    LET key == on_open_enabled_key(s)
    IN collect_interactive_event_at(
           collect_interactive_event_at(s, key, PrivilegeLevelOrder[1]),
           key, PrivilegeLevelOrder[2])

\* collect(): the connection is closed, the driver gets its on_open and
\* on_close back, the connection is opened and on_open_enabled set
reopen_with_on_open(s) ==
    LET s1 == collector_close(s)
        s2 == collector_open([s1 EXCEPT !.device.on_open = TRUE])
    IN [s2 EXCEPT !.collector.on_open_enabled = TRUE]

\* _serialize: asdict(None) raises TypeError
collector_serialize_raises(c) ==
    IF \E priv \in DOMAIN c.unknown_events, key \in OnOpenStates :
            c.unknown_events[priv][key] = None
    THEN TypeError ELSE NoError

\* the "type" _serialize gives an event
EventType(event) ==
    IF "event_steps" \in DOMAIN event THEN "interactive" ELSE "standard"

\* _serialize and dump: the dict that is dumped
dumpable_dict(c) ==
    [events |->
        [priv \in DOMAIN c.events |->
            [key \in DOMAIN c.events[priv] |->
                [channel_input \in DOMAIN c.events[priv][key] |->
                    [event |-> c.events[priv][key][channel_input],
                     type |-> EventType(c.events[priv][key][channel_input])]]]],
     unknown_events |-> c.unknown_events,
     initial_privilege_level |-> c.initial_privilege_level,
     privilege_level_prompts |-> c.privilege_level_prompts,
     on_open_inputs |-> c.on_open_inputs]

VARIABLES
    \* record/replay engine
    session_file,       \* the session's yaml file
    phase,              \* where the test using ScrapliReplay stands
    replay_mode,        \* ScrapliReplay.replay_mode
    replay_session,     \* ScrapliReplay.replay_session
    patched_open,       \* Driver.open is patched
    block_network,      \* ScrapliReplay._block_network
    wrapped_instances,  \* ScrapliReplay.wrapped_instances, in insertion order
    scrapli_conn,       \* the connection the test drives
    channel,            \* which patched read and write its channel carries
    last,               \* the last call made and how it ended
    recorded,           \* what the last recorded session read and wrote
    \* mock ssh server
    collect_data,       \* BaseServer.collect_data, the loaded catalog
    ssh_session,        \* the BaseSSHServerSession of the client's session
    received,           \* the last data received and how it was handled,
                        \* with the wrong credentials sent in a row up to
                        \* it and before it
    ssh_sessions,       \* the sessions session_requested has made for the
                        \* clients served together, each with what it would
                        \* be had it run alone on the catalog as loaded
    \* several connections of one ScrapliReplay
    connections,        \* the connections opened, in the order of
                        \* wrapped_instances: the driver, what its channel
                        \* carries, and the instance it would have had its
                        \* reads and writes been the only ones
    twin,               \* the instance of the same recording made with other
                        \* secrets
    \* collector
    collector,          \* the ScrapliCollector and where collect() stands
    device              \* the device it collects from and the connection to it

replayVars == <<session_file, phase, replay_mode, replay_session, patched_open,
                block_network, wrapped_instances, scrapli_conn, channel, last,
                recorded>>

serverVars == <<collect_data, ssh_session, received, ssh_sessions>>

otherVars == <<connections, twin, collector, device>>

vars == <<replayVars, serverVars, otherVars>>

\* nothing received yet
NothingReceived ==
    [data |-> << >>, channel_input |-> << >>, handlers |-> << >>,
     raised |-> NoError, mismatches |-> 0, mismatches_before |-> 0]

\* no second connection, no second recording, no collector
OthersIdle ==
    /\ connections = << >>
    /\ twin = NoInstance
    /\ collector = NoCollector
    /\ device = NoDevice

\* no server runs
ServerIdle ==
    /\ collect_data = NoCatalog
    /\ ssh_session = BaseSSHServerSession(NoCatalog)
    /\ received = NothingReceived
    /\ ssh_sessions = << >>
    /\ OthersIdle

\* scrapli_conn.channel.read / .write: which function is bound there
Unpatched == [read |-> "scrapli", write |-> "scrapli"]

\* a call: what was called, with which channel_input and redacted flag (for a
\* write), what it returned (for a read) and what it raised
NoArgs == [channel_input |-> << >>, redacted |-> FALSE]
Call(op_, args_, ret_, raised_) ==
    [op |-> op_, args |-> args_, ret |-> ret_, raised |-> raised_]
Last(op_, ret_, raised_) == Call(op_, NoArgs, ret_, raised_)
WriteCall(channel_input_, redacted_, raised_) ==
    Call("write", [channel_input |-> channel_input_, redacted |-> redacted_],
         << >>, raised_)

\* nothing recorded: no read call, no write, an empty read log and write log
NothingRecorded == [reads |-> 0, writes |-> << >>, data |-> << >>, write_log |-> << >>]

\* the state before any ScrapliReplay is constructed
ReplayIdle ==
    /\ phase = "new"
    /\ replay_mode = "NONE"
    /\ replay_session = << >>
    /\ patched_open = FALSE
    /\ block_network = FALSE
    /\ wrapped_instances = << >>
    /\ last = Last("none", << >>, NoError)

ReplayInit ==
    /\ session_file = NoFile
    /\ ReplayIdle
    /\ scrapli_conn = BaseConn
    /\ channel = Unpatched
    /\ recorded = NothingRecorded
    /\ ServerIdle

\* the call ScrapliReplay(replay_mode=..., block_network=...) and what it raised
InitCall(replay_mode_, block_network_, raised_) ==
    Call("init", [replay_mode |-> replay_mode_, block_network |-> block_network_],
         << >>, raised_)

\* the test constructs ScrapliReplay(replay_mode=requested,
\* block_network=block_network_)
Construct(requested, block_network_) ==
    /\ phase = "new"
    /\ IF init_raises(requested, session_file) # NoError
       THEN /\ last' = InitCall(requested, block_network_,
                                init_raises(requested, session_file))
            /\ UNCHANGED <<phase, replay_mode, replay_session, block_network>>
       ELSE /\ phase' = "constructed"
            /\ replay_mode' = init_replay_mode(requested, session_file)
            /\ replay_session' =
                 IF session_exists(session_file) /\ requested \in {"record", "replay"}
                 THEN session_file.sessions ELSE << >>
            /\ block_network' = block_network_
            /\ last' = InitCall(requested, block_network_, NoError)
    /\ recorded' = IF init_raises(requested, session_file) = NoError
                      /\ init_replay_mode(requested, session_file) # "REPLAY"
                   THEN NothingRecorded ELSE recorded
    /\ UNCHANGED <<session_file, patched_open, wrapped_instances, scrapli_conn,
                   channel>>
    /\ UNCHANGED <<serverVars, otherVars>>

\* __enter__
Enter ==
    /\ phase = "constructed"
    /\ phase' = "entered"
    /\ patched_open' = TRUE
    /\ last' = Last("enter", << >>, NoError)
    /\ UNCHANGED <<session_file, replay_mode, replay_session, wrapped_instances,
                   scrapli_conn, channel, recorded>>
    /\ UNCHANGED <<block_network, serverVars, otherVars>>

\* patched_open of __enter__, up to the set-up of the channel's read and write;
\* the transport is opened where the channel is set up to record, and nowhere
\* else
Open ==
    /\ phase = "entered"
    /\ patched_open
    /\ wrapped_instances = << >>
    /\ LET instance_name == create_instance_name(wrapped_instances, scrapli_conn)
           connection_profile == create_connection_profile(scrapli_conn)
           instance_object ==
               ScrapliReplayInstance(replay_mode, connection_profile,
                                     GetSession(replay_session, instance_name))
       IN IF replay_mode = "REPLAY"
          THEN /\ wrapped_instances' =
                    Append(wrapped_instances,
                           [name |-> instance_name,
                            inst |-> common_replay_mode(instance_object)])
               /\ last' = Last("open", << >>, common_replay_mode_raises(instance_object))
               /\ phase' = IF common_replay_mode_raises(instance_object) = NoError
                           THEN "opened" ELSE "entered"
               /\ channel' = IF common_replay_mode_raises(instance_object) = NoError
                             THEN [read |-> "replay", write |-> "replay"]
                             ELSE channel
          ELSE /\ wrapped_instances' =
                    Append(wrapped_instances,
                           [name |-> instance_name, inst |-> instance_object])
               /\ IF block_network
                  THEN /\ last' = Last("open", << >>, Skipped)
                       /\ UNCHANGED <<phase, channel>>
                  ELSE /\ last' = Last("open", << >>, NoError)
                       /\ phase' = "opened"
                       /\ channel' = [read |-> "record", write |-> "record"]
    /\ UNCHANGED <<session_file, replay_mode, replay_session, patched_open,
                   scrapli_conn, recorded>>
    /\ UNCHANGED <<block_network, serverVars, otherVars>>

Recording == phase = "opened" /\ channel.write = "record"
Replaying == phase = "opened" /\ channel.write = "replay"

\* the instance of the connection the test opened
TheInstance == wrapped_instances[1].inst

\* channel.read() while recording: the transport returns transport_buf
RecordRead(transport_buf) ==
    /\ Recording
    /\ recorded.reads < MaxDeviceBytes
    /\ LET r == patched_read_record(TheInstance, transport_buf,
                                    scrapli_conn.comms_ansi)
       IN /\ wrapped_instances' = [wrapped_instances EXCEPT ![1].inst = r.inst]
          /\ last' = Last("read", r.ret, r.raised)
          /\ recorded' = [recorded EXCEPT !.reads = @ + 1,
                                           !.data = r.inst.read_log.data]
    /\ UNCHANGED <<session_file, phase, replay_mode, replay_session, patched_open,
                   scrapli_conn, channel>>
    /\ UNCHANGED <<block_network, serverVars, otherVars>>

\* channel.write(channel_input, redacted) while recording
RecordWrite(channel_input, redacted) ==
    /\ Recording
    /\ Len(recorded.writes) < MaxRecordWrites
    /\ LET r == patched_write_record(TheInstance, channel_input, redacted)
       IN /\ wrapped_instances' = [wrapped_instances EXCEPT ![1].inst = r.inst]
          /\ last' = WriteCall(channel_input, redacted, r.raised)
          /\ recorded' = [recorded EXCEPT
                            !.writes = Append(@, <<channel_input, redacted>>),
                            !.write_log = r.inst.write_log]
    /\ UNCHANGED <<session_file, phase, replay_mode, replay_session, patched_open,
                   scrapli_conn, channel>>
    /\ UNCHANGED <<block_network, serverVars, otherVars>>

\* how many expected inputs the replay has consumed
InputsConsumed(inst) ==
    Len(inst.replay_session.interactions) - Len(inst.scrapli_inputs.rest)

\* how many device outputs the replay has consumed
OutputsConsumed(inst) ==
    Len(inst.replay_session.interactions) - Len(inst.device_outputs.rest)

\* channel.read() while replaying
ReplayRead ==
    /\ Replaying
    /\ channel.read = "replay"
    /\ LET r == patched_read_replay(TheInstance, scrapli_conn.comms_ansi)
       IN /\ wrapped_instances' = [wrapped_instances EXCEPT ![1].inst = r.inst]
          /\ last' = Last("read", r.ret, r.raised)
    /\ UNCHANGED <<session_file, phase, replay_mode, replay_session, patched_open,
                   scrapli_conn, channel, recorded>>
    /\ UNCHANGED <<block_network, serverVars, otherVars>>

\* channel.write() while replaying: the client writes what it wrote, at this
\* position, while the session was recorded
ReplayWrite ==
    /\ Replaying
    /\ InputsConsumed(TheInstance) < Len(recorded.writes)
    /\ LET w == recorded.writes[InputsConsumed(TheInstance) + 1]
           r == patched_write_replay(TheInstance, w[1], w[2])
       IN /\ wrapped_instances' = [wrapped_instances EXCEPT ![1].inst = r.inst]
          /\ last' = WriteCall(w[1], w[2], r.raised)
    /\ UNCHANGED <<session_file, phase, replay_mode, replay_session, patched_open,
                   scrapli_conn, channel, recorded>>
    /\ UNCHANGED <<block_network, serverVars, otherVars>>

\* __exit__, on any way out of the with block; the ScrapliReplay is then dropped
Exit ==
    /\ phase \in {"entered", "opened"}
    /\ patched_open
    /\ patched_open' = FALSE
    /\ IF replay_mode = "RECORD" \/ replay_mode = "OVERWRITE"
       THEN /\ session_file' = save(wrapped_instances)
            /\ last' = Last("exit", << >>, serialize_raises(wrapped_instances))
       ELSE /\ session_file' = session_file
            /\ last' = Last("exit", << >>, NoError)
    /\ phase' = "new"
    /\ replay_mode' = "NONE"
    /\ replay_session' = << >>
    /\ wrapped_instances' = << >>
    /\ recorded' = [recorded EXCEPT !.reads = 0]
    /\ channel' = Unpatched
    /\ block_network' = FALSE
    /\ UNCHANGED scrapli_conn
    /\ UNCHANGED <<serverVars, otherVars>>

\* a test recorded once and run again: the modes it may ask for
RequestedModes == {"record", "replay"}

ReplayNext ==
    \/ \E requested \in RequestedModes : Construct(requested, FALSE)
    \/ Enter
    \/ Open
    \/ \E b \in DeviceBytes : RecordRead(<<b>>)
    \/ \E w \in Writes : RecordWrite(w[1], w[2])
    \/ ReplayRead
    \/ ReplayWrite
    \/ Exit

SpecReplay == ReplayInit /\ [][ReplayNext]_vars

\* ------------------------------------------- the sessions of one test, run
\* again and again with any replay mode and with or without block_network
\* the replay modes a test may ask for, one of them invalid
SessionModes == {"record", "replay", "overwrite", "rerecord"}

\* what the device sends while these sessions are recorded
SessionBytes == {"a", "x"}

SessionNext ==
    \/ \E requested \in SessionModes, block_network_ \in BOOLEAN :
          Construct(requested, block_network_)
    \/ Enter
    \/ Open
    \/ \E b \in SessionBytes : RecordRead(<<b>>)
    \/ RecordWrite(<<"a">>, FALSE)
    \/ ReplayRead
    \/ ReplayWrite
    \/ Exit

SpecSession == ReplayInit /\ [][SessionNext]_vars

\* ------------------- a session recorded over one driver, replayed over any
\* the drivers a test may be run with
ProfileConns ==
    { BaseConn,
      [BaseConn EXCEPT !.host = "h2"],
      [BaseConn EXCEPT !.port = 23],
      [BaseConn EXCEPT !.transport_name = "ssh2"],
      [BaseConn EXCEPT !.auth_username = "u2"] }

\* the test is run with the driver conn: the cls patched_open will be given
Configure(conn) ==
    /\ phase = "new"
    /\ scrapli_conn # conn
    /\ scrapli_conn' = conn
    /\ last' = Last("configure", << >>, NoError)
    /\ UNCHANGED <<session_file, phase, replay_mode, replay_session, patched_open,
                   wrapped_instances, channel, recorded>>
    /\ UNCHANGED <<block_network, serverVars, otherVars>>

ProfilesNext ==
    \/ \E conn \in ProfileConns : Configure(conn)
    \/ \E requested \in RequestedModes : Construct(requested, FALSE)
    \/ Enter
    \/ Open
    \/ RecordRead(<<"a">>)
    \/ RecordWrite(<<"a">>, FALSE)
    \/ ReplayRead
    \/ ReplayWrite
    \/ Exit

SpecProfiles == ReplayInit /\ [][ProfilesNext]_vars

\* ------------------------------------ a telnet session recorded twice
\* the telnet drivers a test may open: the password may be the username
TelnetConns ==
    { [BaseConn EXCEPT !.transport_name = "telnet", !.port = 23],
      [BaseConn EXCEPT !.transport_name = "telnet", !.port = 23,
                       !.auth_password = "u1"] }

\* the same driver with other secrets, each empty where the first is empty
OtherSecrets(conn) ==
    [conn EXCEPT !.auth_password = IF @ = "" THEN "" ELSE "pw2",
                 !.auth_private_key_passphrase = IF @ = "" THEN "" ELSE "pp2",
                 !.auth_secondary = IF @ = "" THEN "" ELSE "sec2"]

TelnetInit ==
    /\ session_file = NoFile
    /\ ReplayIdle
    /\ scrapli_conn \in TelnetConns
    /\ channel = Unpatched
    /\ recorded = NothingRecorded
    /\ ServerIdle

\* telnet_patch_update_log whenever the session is being recorded
telnet_patch_applies_while_recording(mode) == mode \in {"RECORD", "OVERWRITE"}

\* if self.replay_mode == ReplayMode.RECORD, after channel_authenticate_telnet
telnet_patch_applies(mode) == mode = "RECORD"

\* patched_open of a telnet driver, up to channel_authenticate_telnet
TelnetOpen ==
    /\ phase = "entered"
    /\ patched_open
    /\ scrapli_conn.transport_name \in {"telnet", "asynctelnet"}
    /\ ~scrapli_conn.auth_bypass
    /\ wrapped_instances = << >>
    /\ LET instance_name == create_instance_name(wrapped_instances, scrapli_conn)
           instance_object(conn) ==
               ScrapliReplayInstance(replay_mode, create_connection_profile(conn),
                                     GetSession(replay_session, instance_name))
           raised == IF replay_mode = "REPLAY"
                     THEN common_replay_mode_raises(instance_object(scrapli_conn))
                     ELSE NoError
           opened(conn) == IF replay_mode = "REPLAY"
                           THEN common_replay_mode(instance_object(conn))
                           ELSE instance_object(conn)
       IN /\ wrapped_instances' =
               << [name |-> instance_name, inst |-> opened(scrapli_conn)] >>
          /\ twin' = opened(OtherSecrets(scrapli_conn))
          /\ phase' = IF raised = NoError THEN "authenticating" ELSE "failed"
          /\ channel' = IF raised # NoError THEN channel
                        ELSE IF replay_mode = "REPLAY"
                        THEN [read |-> "replay", write |-> "replay"]
                        ELSE [read |-> "record", write |-> "record"]
          /\ last' = Last("open", << >>, raised)
    /\ recorded' = IF replay_mode = "REPLAY" THEN recorded ELSE NothingRecorded
    /\ UNCHANGED <<session_file, replay_mode, replay_session, patched_open,
                   block_network, scrapli_conn>>
    /\ UNCHANGED <<serverVars, connections, collector, device>>

\* the writes of channel_authenticate_telnet go to the write log of the
\* recording, and those of the same session with other secrets to its own
TelnetWrites(writes, other_writes) ==
    LET written(inst, ws) ==
            IF Len(ws) = 1
            THEN patched_write_record(inst, ws[1][1], ws[1][2]).inst
            ELSE patched_write_record(
                     patched_write_record(inst, ws[1][1], ws[1][2]).inst,
                     ws[2][1], ws[2][2]).inst
    IN /\ wrapped_instances' =
            [wrapped_instances EXCEPT ![1].inst = written(@, writes)]
       /\ twin' = written(twin, other_writes)
       /\ recorded' = [recorded EXCEPT
                         !.writes = @ \o writes,
                         !.write_log = written(TheInstance, writes).write_log]
       /\ last' = WriteCall(writes[Len(writes)][1], writes[Len(writes)][2], NoError)
       /\ UNCHANGED <<session_file, phase, replay_mode, replay_session,
                      patched_open, block_network, scrapli_conn, channel>>
       /\ UNCHANGED <<serverVars, connections, collector, device>>

\* channel_authenticate_telnet reads what the device sent
TelnetRead(transport_buf) ==
    /\ phase = "authenticating"
    /\ channel.read = "record"
    /\ recorded.reads < MaxDeviceBytes
    /\ LET r == patched_read_record(TheInstance, transport_buf,
                                    scrapli_conn.comms_ansi)
           other == patched_read_record(twin, transport_buf,
                                        scrapli_conn.comms_ansi)
       IN /\ wrapped_instances' = [wrapped_instances EXCEPT ![1].inst = r.inst]
          /\ twin' = other.inst
          /\ last' = Last("read", r.ret, r.raised)
          /\ recorded' = [recorded EXCEPT !.reads = @ + 1,
                                           !.data = r.inst.read_log.data]
    /\ UNCHANGED <<session_file, phase, replay_mode, replay_session, patched_open,
                   block_network, scrapli_conn, channel>>
    /\ UNCHANGED <<serverVars, connections, collector, device>>

\* nothing came for a while: channel_authenticate_telnet sends a return
TelnetReturn ==
    /\ phase = "authenticating"
    /\ channel.write = "record"
    /\ Len(recorded.writes) < 2 * MaxAuthSteps
    /\ TelnetWrites(<< <<<<"\n">>, FALSE>> >>, << <<<<"\n">>, FALSE>> >>)

\* the device asked for the username: it is written, and a return
TelnetUsername ==
    /\ phase = "authenticating"
    /\ channel.write = "record"
    /\ Len(recorded.writes) < 2 * MaxAuthSteps
    /\ TelnetWrites(<< <<Text(scrapli_conn.auth_username), FALSE>>,
                       <<<<"\n">>, FALSE>> >>,
                    << <<Text(scrapli_conn.auth_username), FALSE>>,
                       <<<<"\n">>, FALSE>> >>)

\* the device asked for the password: it is written redacted, and a return
TelnetPassword ==
    /\ phase = "authenticating"
    /\ channel.write = "record"
    /\ Len(recorded.writes) < 2 * MaxAuthSteps
    /\ TelnetWrites(<< <<Text(scrapli_conn.auth_password), TRUE>>,
                       <<<<"\n">>, FALSE>> >>,
                    << <<Text(OtherSecrets(scrapli_conn).auth_password), TRUE>>,
                       <<<<"\n">>, FALSE>> >>)

\* the device showed its prompt: channel_authenticate_telnet returns and
\* patched_open calls telnet_patch_update_log where the mode is RECORD
TelnetAuthenticated ==
    /\ phase = "authenticating"
    /\ IF telnet_patch_applies(replay_mode)
       THEN /\ phase' = IF telnet_patch_update_log_raises(TheInstance) = NoError
                        THEN "authenticated" ELSE "failed"
            /\ wrapped_instances' =
                  [wrapped_instances EXCEPT
                      ![1].inst = telnet_patch_update_log(@, scrapli_conn.auth_username)]
            /\ twin' = telnet_patch_update_log(twin, scrapli_conn.auth_username)
            /\ last' = Last("telnet_patch_update_log", << >>,
                            telnet_patch_update_log_raises(TheInstance))
       ELSE /\ phase' = "authenticated"
            /\ last' = Last("channel_authenticate_telnet", << >>, NoError)
            /\ UNCHANGED <<wrapped_instances, twin>>
    /\ UNCHANGED <<session_file, replay_mode, replay_session, patched_open,
                   block_network, scrapli_conn, channel, recorded>>
    /\ UNCHANGED <<serverVars, connections, collector, device>>

TelnetNext ==
    \/ Construct("record", FALSE)
    \/ Enter
    \/ TelnetOpen
    \/ TelnetRead(<<"a">>)
    \/ TelnetReturn
    \/ TelnetUsername
    \/ TelnetPassword
    \/ TelnetAuthenticated

SpecTelnet == TelnetInit /\ [][TelnetNext]_vars

\* ------------------------- a telnet session recorded up to the end of the test
\* what a telnet device may send: a character, a byte that is no UTF-8, a
\* scrapli_cfg session name
TelnetBytes == {"a", "x", "S1"}

\* patched_open returns: the driver is open and the test goes on
TelnetOpened ==
    /\ phase = "authenticated"
    /\ phase' = "opened"
    /\ last' = Last("open", << >>, NoError)
    /\ UNCHANGED <<session_file, replay_mode, replay_session, patched_open,
                   block_network, scrapli_conn, channel, recorded,
                   wrapped_instances>>
    /\ UNCHANGED <<serverVars, otherVars>>

\* channel.write(channel_input, redacted) of the test, after the login
TelnetSessionWrite(channel_input, redacted) ==
    /\ Recording
    /\ Len(TheInstance.write_log) < MaxAuthSteps
    /\ LET r == patched_write_record(TheInstance, channel_input, redacted)
       IN /\ wrapped_instances' = [wrapped_instances EXCEPT ![1].inst = r.inst]
          /\ last' = WriteCall(channel_input, redacted, r.raised)
    /\ UNCHANGED <<session_file, phase, replay_mode, replay_session, patched_open,
                   block_network, scrapli_conn, channel, recorded>>
    /\ UNCHANGED <<serverVars, otherVars>>

TelnetSessionNext ==
    \/ Construct("record", FALSE)
    \/ Enter
    \/ TelnetOpen
    \/ \E b \in TelnetBytes : TelnetRead(<<b>>)
    \/ TelnetReturn
    \/ TelnetUsername
    \/ TelnetPassword
    \/ TelnetAuthenticated
    \/ TelnetOpened
    \/ \E b \in TelnetBytes : RecordRead(<<b>>)
    \/ TelnetSessionWrite(<<"a">>, FALSE)
    \/ Exit

SpecTelnetSession == TelnetInit /\ [][TelnetSessionNext]_vars

\* ------------------------------- several connections of one ScrapliReplay
\* a driver the test opened: what is bound to its channel, and the instance
\* made for it as it would be after the reads and writes of this driver only
Connection(scrapli_conn_, channel_, alone_) ==
    [scrapli_conn |-> scrapli_conn_, channel |-> channel_, alone |-> alone_]

\* the reads and writes an instance has logged
ChannelCalls(inst) == Len(inst.read_log.data) + Len(inst.write_log)

\* instances whose logs are one read log and one write log
wrapped_instances_sharing_logs(instances, i, inst) ==
    [j \in DOMAIN instances |->
        [instances[j] EXCEPT
            !.inst = IF j = i THEN inst
                     ELSE [@ EXCEPT !.read_log = inst.read_log,
                                    !.write_log = inst.write_log]]]

\* wrapped_instances after a patched read or write of the i-th driver has
\* left inst: each instance has the BytesIO, the list and the iterators made
\* for it, and the patched functions are bound to that driver's channel
wrapped_instances_after(instances, i, inst) ==
    [instances EXCEPT ![i].inst = inst]

\* patched_open for one more driver, up to the set-up of its channel
ConnectionOpenWithin(conn, opens) ==
    /\ phase = "entered"
    /\ patched_open
    /\ ~block_network
    /\ Len(connections) < opens
    /\ LET instance_name == create_instance_name(wrapped_instances, conn)
           connection_profile == create_connection_profile(conn)
           instance_object ==
               ScrapliReplayInstance(replay_mode, connection_profile,
                                     GetSession(replay_session, instance_name))
           raised == IF replay_mode = "REPLAY"
                     THEN common_replay_mode_raises(instance_object)
                     ELSE NoError
           opened == IF replay_mode = "REPLAY"
                     THEN common_replay_mode(instance_object)
                     ELSE instance_object
           patched == IF raised # NoError THEN Unpatched
                      ELSE IF replay_mode = "REPLAY"
                      THEN [read |-> "replay", write |-> "replay"]
                      ELSE [read |-> "record", write |-> "record"]
       IN /\ wrapped_instances' = SetInstance(wrapped_instances, instance_name, opened)
          /\ connections' = Append(connections, Connection(conn, patched, opened))
          /\ last' = Last("open", << >>, raised)
    /\ UNCHANGED <<session_file, phase, replay_mode, replay_session, patched_open,
                   block_network, scrapli_conn, channel, recorded>>
    /\ UNCHANGED <<serverVars, twin, collector, device>>

ConnectionOpen(conn) == ConnectionOpenWithin(conn, MaxConnections)

\* the i-th driver's channel.read() while recording
ConnectionRecordRead(i, transport_buf) ==
    /\ i \in 1..Len(connections)
    /\ connections[i].channel.read = "record"
    /\ ChannelCalls(wrapped_instances[i].inst) < MaxChannelCalls
    /\ LET comms_ansi == connections[i].scrapli_conn.comms_ansi
           r == patched_read_record(wrapped_instances[i].inst, transport_buf,
                                    comms_ansi)
           alone == patched_read_record(connections[i].alone, transport_buf,
                                        comms_ansi)
       IN /\ wrapped_instances' = wrapped_instances_after(wrapped_instances, i, r.inst)
          /\ connections' = [connections EXCEPT ![i].alone = alone.inst]
          /\ last' = Last("read", r.ret, r.raised)
    /\ UNCHANGED <<session_file, phase, replay_mode, replay_session, patched_open,
                   block_network, scrapli_conn, channel, recorded>>
    /\ UNCHANGED <<serverVars, twin, collector, device>>

\* the i-th driver's channel.write(channel_input, redacted) while recording
ConnectionRecordWrite(i, channel_input, redacted) ==
    /\ i \in 1..Len(connections)
    /\ connections[i].channel.write = "record"
    /\ ChannelCalls(wrapped_instances[i].inst) < MaxChannelCalls
    /\ LET r == patched_write_record(wrapped_instances[i].inst, channel_input,
                                     redacted)
           alone == patched_write_record(connections[i].alone, channel_input,
                                         redacted)
       IN /\ wrapped_instances' = wrapped_instances_after(wrapped_instances, i, r.inst)
          /\ connections' = [connections EXCEPT ![i].alone = alone.inst]
          /\ last' = WriteCall(channel_input, redacted, r.raised)
    /\ UNCHANGED <<session_file, phase, replay_mode, replay_session, patched_open,
                   block_network, scrapli_conn, channel, recorded>>
    /\ UNCHANGED <<serverVars, twin, collector, device>>

\* the i-th driver's channel.read() while replaying
ConnectionReplayRead(i) ==
    /\ i \in 1..Len(connections)
    /\ connections[i].channel.read = "replay"
    /\ LET comms_ansi == connections[i].scrapli_conn.comms_ansi
           r == patched_read_replay(wrapped_instances[i].inst, comms_ansi)
           alone == patched_read_replay(connections[i].alone, comms_ansi)
       IN /\ wrapped_instances' = wrapped_instances_after(wrapped_instances, i, r.inst)
          /\ connections' = [connections EXCEPT ![i].alone = alone.inst]
          /\ last' = Last("read", r.ret, r.raised)
    /\ UNCHANGED <<session_file, phase, replay_mode, replay_session, patched_open,
                   block_network, scrapli_conn, channel, recorded>>
    /\ UNCHANGED <<serverVars, twin, collector, device>>

\* the i-th driver's channel.write(channel_input, redacted) while replaying
ConnectionReplayWrite(i, channel_input, redacted) ==
    /\ i \in 1..Len(connections)
    /\ connections[i].channel.write = "replay"
    /\ wrapped_instances[i].inst.scrapli_inputs.rest # << >>
    /\ LET r == patched_write_replay(wrapped_instances[i].inst, channel_input,
                                     redacted)
           alone == patched_write_replay(connections[i].alone, channel_input,
                                         redacted)
       IN /\ wrapped_instances' = wrapped_instances_after(wrapped_instances, i, r.inst)
          /\ connections' = [connections EXCEPT ![i].alone = alone.inst]
          /\ last' = WriteCall(channel_input, redacted, r.raised)
    /\ UNCHANGED <<session_file, phase, replay_mode, replay_session, patched_open,
                   block_network, scrapli_conn, channel, recorded>>
    /\ UNCHANGED <<serverVars, twin, collector, device>>

\* __exit__ with several drivers opened
ConnectionsExit ==
    /\ phase = "entered"
    /\ patched_open
    /\ patched_open' = FALSE
    /\ IF replay_mode = "RECORD" \/ replay_mode = "OVERWRITE"
       THEN /\ session_file' = save(wrapped_instances)
            /\ last' = Last("exit", << >>, serialize_raises(wrapped_instances))
       ELSE /\ session_file' = session_file
            /\ last' = Last("exit", << >>, NoError)
    /\ phase' = "new"
    /\ replay_mode' = "NONE"
    /\ replay_session' = << >>
    /\ wrapped_instances' = << >>
    /\ connections' = << >>
    /\ UNCHANGED <<block_network, scrapli_conn, channel, recorded>>
    /\ UNCHANGED <<serverVars, twin, collector, device>>

ConnectionsNext ==
    \/ \E requested \in RequestedModes : Construct(requested, FALSE)
    \/ Enter
    \/ ConnectionOpen(BaseConn)
    \/ \E i \in 1..MaxConnections : ConnectionRecordRead(i, <<"a">>)
    \/ \E i \in 1..MaxConnections : ConnectionRecordWrite(i, <<"a">>, FALSE)
    \/ \E i \in 1..MaxConnections : ConnectionReplayRead(i)
    \/ \E i \in 1..MaxConnections : ConnectionReplayWrite(i, <<"a">>, FALSE)
    \/ ConnectionsExit

SpecConnections == ReplayInit /\ [][ConnectionsNext]_vars

\* ------------------------------ a telnet session opened in every mode
\* channel_authenticate_telnet reads while the session is replayed
TelnetReplayRead ==
    /\ phase = "authenticating"
    /\ channel.read = "replay"
    /\ LET r == patched_read_replay(TheInstance, scrapli_conn.comms_ansi)
       IN /\ wrapped_instances' = [wrapped_instances EXCEPT ![1].inst = r.inst]
          /\ phase' = IF r.raised = NoError THEN phase ELSE "failed"
          /\ last' = Last("read", r.ret, r.raised)
    /\ UNCHANGED <<session_file, replay_mode, replay_session, patched_open,
                   block_network, scrapli_conn, channel, recorded>>
    /\ UNCHANGED <<serverVars, otherVars>>

\* channel_authenticate_telnet writes while the session is replayed
TelnetReplayWrite(channel_input, redacted) ==
    /\ phase = "authenticating"
    /\ channel.write = "replay"
    /\ LET r == patched_write_replay(TheInstance, channel_input, redacted)
       IN /\ wrapped_instances' = [wrapped_instances EXCEPT ![1].inst = r.inst]
          /\ phase' = IF r.raised = NoError THEN phase ELSE "failed"
          /\ last' = WriteCall(channel_input, redacted, r.raised)
    /\ UNCHANGED <<session_file, replay_mode, replay_session, patched_open,
                   block_network, scrapli_conn, channel, recorded>>
    /\ UNCHANGED <<serverVars, otherVars>>

TelnetModesNext ==
    \/ \E requested \in SessionModes : Construct(requested, FALSE)
    \/ Enter
    \/ TelnetOpen
    \/ TelnetRead(<<"a">>)
    \/ TelnetUsername
    \/ TelnetPassword
    \/ TelnetReplayRead
    \/ TelnetReplayWrite(Text(scrapli_conn.auth_username), FALSE)
    \/ TelnetReplayWrite(Text(scrapli_conn.auth_password), TRUE)
    \/ TelnetReplayWrite(<<"\n">>, FALSE)
    \/ TelnetAuthenticated
    \/ TelnetOpened
    \/ Exit

SpecTelnetModes == TelnetInit /\ [][TelnetModesNext]_vars

\* ------------------------------------ the names of the instances of a test
\* the logging uids of the drivers: none, one, and ones that begin with, or
\* read like the end of, the name of another
LoggingUids == {<< >>, <<"a">>, <<"a", "b">>, <<"a", ":", "0">>, <<":", "0">>}

\* the drivers a test opens
NamedConns ==
    {[BaseConn EXCEPT !.logging_uid = uid] : uid \in LoggingUids}
        \cup {[BaseConn EXCEPT !.host = "h2"], [BaseConn EXCEPT !.port = 23],
              [BaseConn EXCEPT !.transport_name = "ssh2"]}

NamesNext ==
    \/ \E requested \in RequestedModes : Construct(requested, FALSE)
    \/ Enter
    \/ \E conn \in NamedConns : ConnectionOpenWithin(conn, MaxOpens)
    \/ ConnectionsExit

SpecNames == ReplayInit /\ [][NamesNext]_vars

\* --------------------------------------------- a collector at its device
\* the stages of _collect_priv_and_open_close and _collect, in the order
\* collect() goes through them in each pass (the driver has no privilege
\* level that is escalated to without a password, and the collector was given
\* no interact_events):
\*   1 _collect_on_open_inputs        2 the on_open_inputs, one by one
\*   3 _collect_on_close_inputs       4 the on_close_inputs, one by one
\*   5 the deescalate inputs          6 the "enable" dialog
\*   7 _collect_unknown_events        8 the channel_inputs, one by one
LastStage == 8

\* the inputs a stage goes through one by one
StageInputs(c) ==
    IF c.stage = 2 THEN c.on_open_inputs
    ELSE IF c.stage = 4 THEN c.on_close_inputs
    ELSE IF c.stage = 5 THEN c.privilege_deescalate_inputs
    ELSE IF c.stage = 8 THEN c.channel_inputs
    ELSE << >>

RECURSIVE Settle(_)
\* where collect() stands next: a stage whose inputs are used up is left, and
\* after the last stage the first pass is followed by the reopening, the
\* second by the end of collect()
Settle(c) ==
    IF c.stage > LastStage
    THEN [c EXCEPT !.pc = IF c.pass = 1 THEN "reopen" ELSE "done"]
    ELSE IF c.stage \in {2, 4, 5, 8} /\ c.k > Len(StageInputs(c))
    THEN Settle([c EXCEPT !.stage = @ + 1, !.k = 1])
    ELSE c

\* collect() goes on to the next stage
NextStage(c) == Settle([c EXCEPT !.stage = @ + 1, !.k = 1])

\* collect() goes on to the next input of the stage
NextInput(c) == Settle([c EXCEPT !.k = @ + 1])

CollectorInit ==
    /\ session_file = NoFile
    /\ ReplayIdle
    /\ scrapli_conn = BaseConn
    /\ channel = Unpatched
    /\ recorded = NothingRecorded
    /\ collect_data = NoCatalog
    /\ ssh_session = BaseSSHServerSession(NoCatalog)
    /\ received = NothingReceived
    /\ ssh_sessions = << >>
    /\ connections = << >>
    /\ twin = NoInstance
    /\ collector = ScrapliCollector(<< <<"show">> >>)
    /\ \E on_open_routine \in OnOpenRoutines, closing \in ClosingInputs :
          device = Device(on_open_routine, closing)

\* the collector and the device after a call
Becomes(s) ==
    /\ collector' = s.collector
    /\ device' = s.device
    /\ UNCHANGED <<replayVars, serverVars, connections, twin>>

\* collector.open()
CollectorOpen ==
    /\ collector.pc = "constructed"
    /\ Becomes([collector_open(Both(collector, device)) EXCEPT
                   !.collector.pc = "opened"])

\* collect(), up to _collect_priv_and_open_close
CollectPrivilegePrompts ==
    /\ collector.pc = "opened"
    /\ Becomes([collect_privilege_prompts(Both(collector, device)) EXCEPT
                   !.collector.pc = "collecting"])

CollectOnOpenInputs ==
    /\ collector.pc = "collecting"
    /\ collector.stage = 1
    /\ Becomes([collect_on_open_inputs(Both(collector, device)) EXCEPT
                   !.collector = NextStage(@)])

CollectOnCloseInputs ==
    /\ collector.pc = "collecting"
    /\ collector.stage = 3
    /\ Becomes([collect_on_close_inputs(Both(collector, device)) EXCEPT
                   !.collector = NextStage(@)])

\* _collect_standard_event for the next input of the stage
CollectStandardEvent ==
    /\ collector.pc = "collecting"
    /\ collector.stage \in {2, 4, 5, 8}
    /\ Becomes([collect_standard_event(Both(collector, device),
                                       StageInputs(collector)[collector.k])
                   EXCEPT !.collector = NextInput(@)])

CollectInteractiveEvent ==
    /\ collector.pc = "collecting"
    /\ collector.stage = 6
    /\ Becomes([collect_interactive_event(Both(collector, device)) EXCEPT
                   !.collector = NextStage(@)])

CollectUnknownEvents ==
    /\ collector.pc = "collecting"
    /\ collector.stage = 7
    /\ Becomes([collect_unknown_events(Both(collector, device)) EXCEPT
                   !.collector = NextStage(@)])

\* collect(), between the passes
ReopenWithOnOpen ==
    /\ collector.pc = "reopen"
    /\ Becomes([reopen_with_on_open(Both(collector, device)) EXCEPT
                   !.collector = Settle([@ EXCEPT !.pc = "collecting", !.pass = 2,
                                                  !.stage = 1, !.k = 1])])

\* dump(), before collect() or after it
Dump ==
    /\ collector.pc \in {"opened", "done"}
    /\ collector.raised = NoError
    /\ collector' =
          IF collector_serialize_raises(collector) # NoError
          THEN [collector EXCEPT !.raised = collector_serialize_raises(collector)]
          ELSE [collector EXCEPT !.pc = "dumped",
                                 !.dumped = dumpable_dict(collector)]
    /\ UNCHANGED <<replayVars, serverVars, connections, twin, device>>

CollectorNext ==
    \/ CollectorOpen
    \/ CollectPrivilegePrompts
    \/ CollectOnOpenInputs
    \/ CollectOnCloseInputs
    \/ CollectStandardEvent
    \/ CollectInteractiveEvent
    \/ CollectUnknownEvents
    \/ ReopenWithOnOpen
    \/ Dump

SpecCollector == CollectorInit /\ [][CollectorNext]_vars

\* ------------------------------------------- a ScrapliReplayInstance alone
\* read logs and write logs of recorded sessions, as the recorder leaves them
StoredLogs ==
    { [data |-> << >>, write_log |-> << >>],
      [data |-> <<"a", "S1", "E">>,
       write_log |-> << <<<<"a">>, FALSE, 1>>, <<<<"b", "N">>, FALSE, 2>> >>],
      [data |-> <<"S1", "a">>,
       write_log |-> << <<<<"a">>, TRUE, 0>>, <<<<"b", "N">>, FALSE, 1>>,
                        <<<<"a">>, FALSE, 2>> >>],
      [data |-> <<"a", "x">>,
       write_log |-> << <<<<"a">>, FALSE, 2>>, <<<<"a">>, FALSE, 2>> >>] }

\* the sessions _serialize stores for them, recorded over BaseConn
StoredSessions ==
    { serialize_instance(
        [ScrapliReplayInstance("RECORD", create_connection_profile(BaseConn),
                               NoSession)
            EXCEPT !.read_log = [data |-> l.data, pos |-> Len(l.data)],
                   !.write_log = l.write_log]).session : l \in StoredLogs }

\* the channel inputs a client may write while a session is replayed
ReplayInputs == {<<"a">>, <<"b", "S1">>, <<"b", "S2">>, REDACTED}

\* ScrapliReplayInstance(connection_profile=..., replay_session=...) is built
\* for a connection and a stored session, and not yet set up
InstanceInit ==
    /\ session_file = NoFile
    /\ phase = "instance"
    /\ replay_mode = "NONE"
    /\ replay_session = << >>
    /\ patched_open = FALSE
    /\ block_network = FALSE
    /\ scrapli_conn \in Conns
    /\ channel = Unpatched
    /\ last = Last("none", << >>, NoError)
    /\ recorded = NothingRecorded
    /\ ServerIdle
    /\ \E stored \in StoredSessions :
         wrapped_instances =
            << [name |-> create_instance_name(<< >>, scrapli_conn),
                inst |-> ScrapliReplayInstance(
                            "REPLAY", create_connection_profile(scrapli_conn),
                            stored)] >>

setup_replay_mode ==
    /\ phase = "instance"
    /\ wrapped_instances' =
          [wrapped_instances EXCEPT ![1].inst = common_replay_mode(TheInstance)]
    /\ last' = Last("setup", << >>, common_replay_mode_raises(TheInstance))
    /\ IF common_replay_mode_raises(TheInstance) = NoError
       THEN /\ phase' = "opened"
            /\ channel' = [read |-> "replay", write |-> "replay"]
       ELSE UNCHANGED <<phase, channel>>
    /\ UNCHANGED <<session_file, replay_mode, replay_session, patched_open,
                   scrapli_conn, recorded>>
    /\ UNCHANGED <<block_network, serverVars, otherVars>>

setup_async_replay_mode ==
    /\ phase = "instance"
    /\ wrapped_instances' =
          [wrapped_instances EXCEPT ![1].inst = common_replay_mode(TheInstance)]
    /\ last' = Last("setup", << >>, common_replay_mode_raises(TheInstance))
    /\ IF common_replay_mode_raises(TheInstance) = NoError
       THEN /\ phase' = "opened"
            /\ channel' = [read |-> "async_replay", write |-> "replay"]
       ELSE UNCHANGED <<phase, channel>>
    /\ UNCHANGED <<session_file, replay_mode, replay_session, patched_open,
                   scrapli_conn, recorded>>
    /\ UNCHANGED <<block_network, serverVars, otherVars>>

\* await channel.read() while replaying
ReplayAsyncRead ==
    /\ Replaying
    /\ channel.read = "async_replay"
    /\ LET r == patched_async_read_replay(TheInstance, scrapli_conn.comms_ansi)
       IN /\ wrapped_instances' = [wrapped_instances EXCEPT ![1].inst = r.inst]
          /\ last' = Last("read", r.ret, r.raised)
    /\ UNCHANGED <<session_file, phase, replay_mode, replay_session, patched_open,
                   scrapli_conn, channel, recorded>>
    /\ UNCHANGED <<block_network, serverVars, otherVars>>

\* channel.write(channel_input, redacted) while replaying, whatever it writes
ClientWrite(channel_input, redacted) ==
    /\ Replaying
    /\ LET r == patched_write_replay(TheInstance, channel_input, redacted)
       IN /\ wrapped_instances' = [wrapped_instances EXCEPT ![1].inst = r.inst]
          /\ last' = WriteCall(channel_input, redacted, r.raised)
    /\ UNCHANGED <<session_file, phase, replay_mode, replay_session, patched_open,
                   scrapli_conn, channel, recorded>>
    /\ UNCHANGED <<block_network, serverVars, otherVars>>

InstanceNext ==
    \/ setup_replay_mode
    \/ setup_async_replay_mode
    \/ ReplayRead
    \/ ReplayAsyncRead
    \/ \E channel_input \in ReplayInputs, redacted \in BOOLEAN :
            ClientWrite(channel_input, redacted)

SpecInstance == InstanceInit /\ [][InstanceNext]_vars

\* ------------------------------------------------- one mock server session
\* BaseServer.__init__ has loaded a catalog and session_requested has built
\* the session of a client
ServerInit ==
    /\ session_file = NoFile
    /\ ReplayIdle
    /\ scrapli_conn = BaseConn
    /\ channel = Unpatched
    /\ recorded = NothingRecorded
    /\ collect_data \in Catalogs
    /\ ssh_session = BaseSSHServerSession(collect_data)
    /\ received = NothingReceived
    /\ ssh_sessions = << >>
    /\ OthersIdle

\* session_started
SessionStarted ==
    /\ collect_data # NoCatalog
    /\ received = NothingReceived
    /\ LET h == repaint_prompt(collect_data, ssh_session)
       IN /\ ssh_session' = h.self
          /\ received' = [data |-> << >>,
                          channel_input |-> << >>,
                          handlers |-> <<"session_started">> \o h.handlers,
                          raised |-> h.raised,
                          mismatches |-> 0, mismatches_before |-> 0]
    /\ UNCHANGED <<replayVars, collect_data, ssh_sessions, otherVars>>

\* the session has started
Started == collect_data # NoCatalog /\ received # NothingReceived

\* the session is in a dialog, at a hidden step, and the input is not the
\* credential
WrongCredential(self, channel_input) ==
    /\ self.interacting
    /\ hidden_input_mismatch(
          PyIndex(self.interacting_event.event_steps, self.interact_index),
          channel_input)

\* data_received(data): the line editor hands one line to the session; the
\* channel then holds what this call wrote.  Lines may arrive after the
\* session called exit on its channel: the transport decides that, not this code.
DataReceived(data) ==
    /\ Started
    /\ LET h == data_received(collect_data,
                              [ssh_session EXCEPT !.chan.writes = << >>], data)
           mismatches == IF WrongCredential(ssh_session, ChannelInput(data))
                         THEN received.mismatches + 1
                         ELSE 0
       IN /\ mismatches <= MaxMismatches
          /\ ssh_session' = h.self
          /\ received' = [data |-> data,
                          channel_input |-> ChannelInput(data),
                          handlers |-> <<"data_received">> \o h.handlers,
                          raised |-> h.raised,
                          mismatches |-> mismatches,
                          mismatches_before |-> received.mismatches]
    /\ UNCHANGED <<replayVars, collect_data, ssh_sessions, otherVars>>

\* eof_received, when the client closes its side
EofReceived ==
    /\ Started
    /\ ssh_session' = eof_received([ssh_session EXCEPT !.chan.writes = << >>])
    /\ received' = [data |-> << >>, channel_input |-> << >>,
                    handlers |-> <<"eof_received">>, raised |-> NoError,
                    mismatches |-> 0, mismatches_before |-> 0]
    /\ UNCHANGED <<replayVars, collect_data, ssh_sessions, otherVars>>

\* break_received
BreakReceived ==
    /\ Started
    /\ ssh_session' = eof_received([ssh_session EXCEPT !.chan.writes = << >>])
    /\ received' = [data |-> << >>, channel_input |-> << >>,
                    handlers |-> <<"break_received", "eof_received">>,
                    raised |-> NoError, mismatches |-> 0, mismatches_before |-> 0]
    /\ UNCHANGED <<replayVars, collect_data, ssh_sessions, otherVars>>

ServerNext ==
    \/ SessionStarted
    \/ \E data \in Lines : DataReceived(data)
    \/ EofReceived
    \/ BreakReceived

SpecServer == ServerInit /\ [][ServerNext]_vars

\* ------------------------------------ one session over any catalog file
\* BaseServer.__init__ loads whatever the file holds
CatalogInit ==
    /\ session_file = NoFile
    /\ ReplayIdle
    /\ scrapli_conn = BaseConn
    /\ channel = Unpatched
    /\ recorded = NothingRecorded
    /\ collect_data \in Catalogs \cup PartialCatalogs
    /\ ssh_session = BaseSSHServerSession(collect_data)
    /\ received = NothingReceived
    /\ ssh_sessions = << >>
    /\ OthersIdle

SpecCatalog == CatalogInit /\ [][ServerNext]_vars

\* -------------------------------------- several sessions of one server
\* the lines the clients served together may send
SessionLines ==
    {<<word, "\n">> : word \in {"p", "exit", "en", "scrapli", "quit", "zz"}}
        \cup { <<"\n">> }

\* sessions whose checklist is the catalog's own on_open_inputs list
collect_data_sharing_on_open_inputs(cd, self) ==
    [cd EXCEPT !.on_open_inputs = self.on_open_commands_list]

\* what a handler of one session leaves of the catalog all sessions share:
\* the handlers read it, and copy on_open_inputs before they pop from it
collect_data_after(cd, self) == cd

\* session_requested, for one more client, and session_started
SessionRequested ==
    /\ Len(ssh_sessions) < MaxSessions
    /\ LET loaded == IF ssh_sessions = << >> THEN collect_data
                     ELSE ssh_sessions[1].collect_data
           started(cd) == repaint_prompt(cd, BaseSSHServerSession(cd)).self
       IN ssh_sessions' = Append(ssh_sessions,
                                 [self |-> started(collect_data),
                                  alone |-> started(loaded),
                                  collect_data |-> loaded])
    /\ UNCHANGED <<replayVars, collect_data, ssh_session, received, otherVars>>

\* data_received(data) of session i
SessionDataReceived(i, data) ==
    /\ i \in 1..Len(ssh_sessions)
    /\ LET fresh(self) == [self EXCEPT !.chan.writes = << >>]
           h == data_received(collect_data, fresh(ssh_sessions[i].self), data)
           alone == data_received(ssh_sessions[i].collect_data,
                                  fresh(ssh_sessions[i].alone), data)
       IN /\ ssh_sessions' = [ssh_sessions EXCEPT ![i].self = h.self,
                                                  ![i].alone = alone.self]
          /\ collect_data' = collect_data_after(collect_data, h.self)
    /\ UNCHANGED <<replayVars, ssh_session, received, otherVars>>

SessionsNext ==
    \/ SessionRequested
    \/ \E i \in 1..MaxSessions, data \in SessionLines : SessionDataReceived(i, data)

SpecSessions == ServerInit /\ [][SessionsNext]_vars

\* ===================================================== record/replay claims
\* the offset the slice of write-log entry k starts at
PrevOffset(write_log, k) == IF k = 1 THEN 0 ELSE write_log[k - 1][3]

\* the offset of the last write-log entry
LastOffset(write_log) ==
    IF write_log = << >> THEN 0 ELSE write_log[Len(write_log)][3]

\* the bytes recorded between write k-1 and write k (after the last write,
\* for k past the write log)
RecordedSlice(rec, k) ==
    IF k <= Len(rec.write_log)
    THEN SubSeq(rec.data, PrevOffset(rec.write_log, k) + 1, rec.write_log[k][3])
    ELSE SubSeq(rec.data, LastOffset(rec.write_log) + 1, Len(rec.data))

\* bytes were read after the last recorded write
HasResidual(rec) == Len(rec.data) > LastOffset(rec.write_log)

NumSlices(rec) == Len(rec.write_log) + (IF HasResidual(rec) THEN 1 ELSE 0)

\* the session file holds the session that `recorded` describes
FileOfRecorded ==
    /\ session_file.exists
    /\ ~session_file.empty
    /\ Len(session_file.sessions) = 1
    /\ phase = "new" \/ replay_mode = "REPLAY"

FileInteractions == session_file.sessions[1].session.interactions

\* interaction k of `interactions` is write-log entry k, its channel_output
\* being output(slice k)
InteractionsOfWriteLog(interactions, rec, output(_)) ==
    /\ Len(interactions) \in {Len(rec.write_log), Len(rec.write_log) + 1}
    /\ \A k \in 1..Len(rec.write_log) :
          interactions[k] =
             Interaction(output(RecordedSlice(rec, k)),
                         IF rec.write_log[k][2] THEN REDACTED
                         ELSE rec.write_log[k][1],
                         rec.write_log[k][2])

\* the bytes as text, character for character
AsText(bytes) == bytes

SliceAsStored(bytes) == SubCfgSession(DecodeIgnore(bytes))

ResidualAsClaimed(file, rec) ==
    /\ ~file.empty
    /\ Len(file.sessions) = 1
    /\ LET interactions == file.sessions[1].session.interactions
       IN IF HasResidual(rec)
          THEN /\ Len(interactions) = Len(rec.write_log) + 1
               /\ interactions[Len(interactions)] =
                     Interaction(AsText(RecordedSlice(rec, Len(rec.write_log) + 1)),
                                 NoneInput, FALSE)
          ELSE Len(interactions) = Len(rec.write_log)

\* C8: leaving a recording serializes one final interaction with null expected
\* input (flag false) holding the remaining bytes exactly when the read buffer
\* holds bytes past the last write's offset, and none otherwise.
C8_TrailingResidual ==
    [][(Recording /\ phase' = "new") => ResidualAsClaimed(session_file', recorded)]_vars

\* no byte of data is undecodable, a scrapli_cfg session name or the placeholder
Clean(data) ==
    \A i \in 1..Len(data) : data[i] \notin (CfgNames \cup {"x", "N"})

\* the last replay read returned slice k of the recording, k being the number
\* of outputs consumed, or, raising, was made after every slice was returned
ReadIsRecordedSlice ==
    IF last.raised = NoError
    THEN last.ret = RecordedSlice(recorded, OutputsConsumed(TheInstance))
    ELSE OutputsConsumed(TheInstance) >= NumSlices(recorded)

Interactions == TheInstance.replay_session.interactions

\* the last write consumed expected input i
LastWriteChecked ==
    /\ Replaying
    /\ last.op = "write"
    /\ last.raised # StopIteration
    /\ InputsConsumed(TheInstance) >= 1

\* the last write raised ScrapliReplayExpectedInputError exactly when
\* effective(its input) or its flag differs from the pair it consumed
RaisedIffDiffers(effective(_)) ==
    LET e == Interactions[InputsConsumed(TheInstance)]
        effective_input == IF last.args.redacted THEN REDACTED
                           ELSE effective(last.args.channel_input)
    IN IF \/ effective_input # e.expected_channel_input
          \/ last.args.redacted # e.expected_channel_input_redacted
       THEN last.raised = ScrapliReplayExpectedInputError
       ELSE last.raised = NoError

AsWritten(channel_input) == channel_input

\* C2 as stated: the i-th write raises ScrapliReplayExpectedInputError when its
\* effective input ("REDACTED" when redacted, else the input) or its flag
\* differs from the i-th recorded pair, and does not raise when both match.
C2_WriteCheckedAsWritten == LastWriteChecked => RaisedIffDiffers(AsWritten)

\* C2 amended: the effective input is "REDACTED" when the write is redacted,
\* else the input with every scrapli_cfg session name replaced by
\* __SCRAPLI_CFG_SESSION_NAME__; the i-th write raises
\* ScrapliReplayExpectedInputError when it or the flag differs from the i-th
\* recorded pair and does not raise when both match.
C2_WriteCheckedAfterSubstitution == LastWriteChecked => RaisedIffDiffers(SubCfgSession)

\* the second write names a scrapli_cfg session where the second recorded
\* input holds the placeholder, and is accepted
C2_Witness ==
    /\ LastWriteChecked
    /\ InputsConsumed(TheInstance) = 2
    /\ last.args = [channel_input |-> <<"b", "S2">>, redacted |-> FALSE]
    /\ Interactions[2].expected_channel_input = <<"b", "N">>
    /\ last.raised = NoError

WriteStep ==
    /\ Replaying
    /\ last'.op = "write"
    /\ Len(wrapped_instances'[1].inst.scrapli_inputs.rest)
          = Len(TheInstance.scrapli_inputs.rest) - 1

ReadAsReplayed(channel_output, scrapli_cfg_session, comms_ansi) ==
    LET buf == IF /\ \E i \in 1..Len(channel_output) : channel_output[i] = "N"
                  /\ scrapli_cfg_session # EmptyText
               THEN scrapli_cfg_session ELSE channel_output
    IN IF comms_ansi THEN SelectSeq(buf, LAMBDA c : c # "E") ELSE buf

\* the synchronous and the asynchronous replay read do the same
SyncAsAsync ==
    patched_read_replay(TheInstance, scrapli_conn.comms_ansi)
        = patched_async_read_replay(TheInstance, scrapli_conn.comms_ansi)

\* C4 as stated: of n interactions, read k <= n returns the k-th recorded
\* channel_output, every later read raises ScrapliReplayException, and the
\* synchronous and the asynchronous read behave alike.
C4_ReadsReturnRecorded ==
    (Replaying /\ last.op = "read") =>
        /\ IF last.raised = NoError
           THEN last.ret = Interactions[OutputsConsumed(TheInstance)].channel_output
           ELSE /\ last.raised = ScrapliReplayException
                /\ OutputsConsumed(TheInstance) = Len(Interactions)
        /\ SyncAsAsync

\* a step that is a replay read, synchronous or asynchronous
ReadStep ==
    /\ Replaying
    /\ last'.op = "read"
    /\ <<wrapped_instances, last>>' # <<wrapped_instances, last>>

\* C4 amended: of n interactions, read k <= n returns the k-th recorded
\* channel_output, or, when that output holds __SCRAPLI_CFG_SESSION_NAME__ and
\* the last write that named a scrapli_cfg session is still pending, the
\* channel input of that write, and
\* with ANSI escapes stripped when comms_ansi is set; every later read raises
\* ScrapliReplayException; the synchronous and the asynchronous read behave alike.
C4_ReadsReturnReplayed ==
    [][ReadStep =>
         /\ IF OutputsConsumed(TheInstance) < Len(Interactions)
            THEN /\ last'.raised = NoError
                 /\ last'.ret =
                       ReadAsReplayed(
                          Interactions[OutputsConsumed(TheInstance) + 1].channel_output,
                          TheInstance.scrapli_cfg_session,
                          scrapli_conn.comms_ansi)
                 /\ Len(wrapped_instances'[1].inst.device_outputs.rest)
                       = Len(TheInstance.device_outputs.rest) - 1
            ELSE last'.raised = ScrapliReplayException
         /\ SyncAsAsync]_vars

\* an asynchronous read past the last of two interactions raised
C4_Witness ==
    /\ Replaying
    /\ channel.read = "async_replay"
    /\ last.op = "read"
    /\ last.raised = ScrapliReplayException
    /\ Len(Interactions) = 2
    /\ OutputsConsumed(TheInstance) = 2

\* C5: a replay write issued after every recorded expected input has been
\* consumed raises ScrapliReplayException or a subclass of it.
C5_WriteExhaustion ==
    [][(/\ Replaying
        /\ TheInstance.scrapli_inputs.rest = << >>
        /\ last'.op = "write"
        /\ last' # last)
         => IsScrapliReplayException(last'.raised)]_vars

\* C6: when set-up for replay finds the instance's ConnectionProfile different
\* from the recorded one, in any field, it raises
\* ScrapliReplayConnectionProfileError and creates neither cursor; when the
\* profiles are equal it raises nothing.
C6_ProfileIsolation ==
    last.op = "setup" =>
        IF TheInstance.connection_profile
              # TheInstance.replay_session.connection_profile
        THEN /\ last.raised = ScrapliReplayConnectionProfileError
             /\ TheInstance.device_outputs = NoIterator
             /\ TheInstance.scrapli_inputs = NoIterator
             /\ ~Replaying
        ELSE last.raised = NoError

\* set-up was refused for a connection that differs from the recorded one in
\* its port only
C6_Witness ==
    /\ last.op = "setup"
    /\ last.raised = ScrapliReplayConnectionProfileError
    /\ scrapli_conn = [BaseConn EXCEPT !.port = 23]

\* ============================================================ server claims
\* a step in which the session handled a line
LineStep ==
    /\ Started
    /\ received'.handlers # << >>
    /\ received'.handlers[1] = "data_received"
    /\ <<ssh_session, received>>' # <<ssh_session, received>>

\* the unknown_events entry of the session's privilege level and on-open state
UnknownEntry == collect_data.unknown_events[ssh_session.current_privilege_level][
                                            ssh_session.on_open_state]

\* the catalog entry the line that the step handles would be looked up under
LookedUp ==
    Get(collect_data.events[ssh_session.current_privilege_level][
                            ssh_session.on_open_state],
        received'.channel_input)

\* the handler named ran in the step
Ran(handler) ==
    \E i \in 1..Len(received'.handlers) : received'.handlers[i] = handler

\* C9 as stated: in every state, a line without a catalog entry for the
\* session's privilege level and on-open state is answered with the output of
\* the unknown_events entry of exactly that pair.
C9_UnknownForEveryLine ==
    [][(LineStep /\ LookedUp = NoEvent) =>
         ssh_session'.chan.writes = <<UnknownEntry.channel_output>>]_vars

\* C9 amended: a line other than the bare line terminator that an idle
\* session (not inside a dialog) receives and that has no catalog entry for
\* the session's privilege level and on-open state is answered as unknown
\* input; and whenever a line is answered as unknown input, also when a dialog
\* was aborted, the output emitted is that of the unknown_events entry of
\* exactly that pair, never another pair's.
C9_UnknownInputFallback ==
    [][LineStep =>
         /\ (/\ ~ssh_session.interacting
             /\ received'.channel_input # <<"\n">>
             /\ LookedUp = NoEvent) => Ran("unknown_event")
         /\ Ran("unknown_event") =>
               ssh_session'.chan.writes = <<UnknownEntry.channel_output>>]_vars

\* an unknown line was answered at privilege_exec after the on-open input
C9_Witness ==
    /\ received.handlers = <<"data_received", "unknown_event">>
    /\ received.channel_input = <<"zz">>
    /\ ssh_session.on_open_state = POST
    /\ ssh_session.current_privilege_level = "privilege_exec"
    /\ ssh_session.chan.writes = <<UnknownOutput("privilege_exec", POST)>>

\* the catalog's on_open_inputs has one element
OneOnOpenInput == Len(collect_data.on_open_inputs) = 1

\* C10 as stated: with a one-element on_open_inputs the session starts in
\* pre_on_open; a line that is that input makes the phase post_on_open; and
\* once post_on_open the phase stays so.
C10_PostAfterOnOpenInput ==
    /\ OneOnOpenInput => ssh_session.on_open_state = PRE
    /\ [][(OneOnOpenInput /\ LineStep) =>
            /\ received'.channel_input = collect_data.on_open_inputs[1]
                  => ssh_session'.on_open_state = POST
            /\ ssh_session.on_open_state = POST
                  => ssh_session'.on_open_state = POST]_vars

\* C10 amended: with a one-element on_open_inputs the session starts in
\* pre_on_open; when that input is received while the session is idle and its
\* catalog entry for the current privilege level and phase is a StandardEvent
\* that does not close the connection, the phase becomes post_on_open; it then
\* stays post_on_open until a closing StandardEvent resets it to pre_on_open.
C10_PostAfterOnOpenEvent ==
    /\ OneOnOpenInput => ssh_session.on_open_state = PRE
    /\ [][(OneOnOpenInput /\ LineStep) =>
            /\ (/\ received'.channel_input = collect_data.on_open_inputs[1]
                /\ ~ssh_session.interacting
                /\ LookedUp.type = "standard"
                /\ ~LookedUp.closes_connection
                /\ LookedUp.channel_output # CLOSES_CONNECTION)
                  => ssh_session'.on_open_state = POST
            /\ (ssh_session.on_open_state = POST
                   /\ ssh_session'.on_open_state # POST)
                  => /\ Ran("standard_event")
                     /\ LookedUp.closes_connection
                     /\ ssh_session'.chan.exited]_vars

\* the one on-open input was just handled and the phase is post_on_open
C10_Witness ==
    /\ OneOnOpenInput
    /\ received.channel_input = collect_data.on_open_inputs[1]
    /\ received.handlers = <<"data_received", "standard_event">>
    /\ ssh_session.on_open_state = POST
    /\ ssh_session.on_open_commands_list = << >>

\* ---------------------------------------------------------------- dialogs
\* the session is inside a dialog
InDialog == ssh_session.interacting

\* the steps of the dialog the session is inside
DialogSteps == ssh_session.interacting_event.event_steps

\* the step the dialog stands at
DialogStep == PyIndex(DialogSteps, ssh_session.interact_index)

\* the step before it, as Python indexes: the last one before the first
PreviousStep == PyIndex(DialogSteps, ssh_session.interact_index - 1)

AtHiddenStep == InDialog /\ DialogStep.hidden_input

\* the line the step handles is the credential a hidden step takes
Credential == received'.channel_input = <<"scrapli">>

\* the step left the session as it was, but for what it wrote to the channel
OnlyWrote ==
    [ssh_session' EXCEPT !.chan.writes = << >>] =
        [ssh_session EXCEPT !.chan.writes = << >>]

\* the step handled the line at the dialog's step and went on to the next one,
\* or ended the dialog at its last step
AdvancedPastStep ==
    IF ssh_session.interact_index + 1 = Len(DialogSteps)
    THEN /\ ~ssh_session'.interacting
         /\ ssh_session'.interact_index = 0
    ELSE /\ ssh_session'.interacting
         /\ ssh_session'.interact_index = ssh_session.interact_index + 1

\* the step kept the dialog at the step it stood at
Retried ==
    /\ ssh_session'.interacting
    /\ ssh_session'.interacting_event = ssh_session.interacting_event
    /\ ssh_session'.interact_index = ssh_session.interact_index
    /\ ~Ran("unknown_event")

C12_SecondMismatchFallsThrough ==
    [][(LineStep /\ AtHiddenStep /\ ~Credential) =>
         IF received.mismatches = 0
         THEN Retried
         ELSE /\ Ran("unknown_event")
              /\ ~ssh_session'.interacting]_vars

\* C12 amended: at a hidden step every wrong input is retried, the first and
\* every further one in a row: none is answered as unknown input and none
\* ends the dialog.
C12_EveryMismatchRetried ==
    [][(LineStep /\ AtHiddenStep /\ ~Credential) =>
         /\ Retried
         /\ received'.handlers = <<"data_received", "interactive_event">>
         /\ received'.mismatches = received.mismatches + 1]_vars

\* a second wrong input in a row was retried
C12_Witness ==
    /\ received.mismatches = 2
    /\ received.handlers = <<"data_received", "interactive_event">>
    /\ ssh_session.interacting
    /\ PyIndex(ssh_session.interacting_event.event_steps,
               ssh_session.interact_index).hidden_input

\* ----------------------------------------------------------- idle session
\* the session is idle and the line the step handles is looked up in the catalog
LookupStep ==
    /\ LineStep
    /\ ~InDialog
    /\ received'.channel_input # <<"\n">>

\* the event closes the connection
Closing(event) ==
    /\ event.type = "standard"
    /\ event.closes_connection \/ event.channel_output = CLOSES_CONNECTION

\* C13: a StandardEvent that closes the connection, by closes_connection or by
\* the __CLOSES_CONNECTION__ output, ends the session and puts it back at the
\* initial privilege level (not the event's), in pre_on_open, with the whole of
\* on_open_inputs as its checklist (nothing popped off it).
C13_ClosingEventResets ==
    [][(LookupStep /\ Closing(LookedUp)) =>
         /\ Ran("standard_event")
         /\ ssh_session'.chan.exited
         /\ ssh_session'.current_privilege_level =
                collect_data.initial_privilege_level
         /\ ssh_session'.on_open_state = PRE
         /\ ssh_session'.on_open_commands_list = collect_data.on_open_inputs]_vars

\* "quit", an on-open input whose event closes by closes_connection alone and
\* names privilege_exec, left the session at exec with its whole checklist
C13_Witness ==
    /\ received.channel_input = <<"quit">>
    /\ received.handlers = <<"data_received", "standard_event">>
    /\ collect_data.on_open_inputs = << <<"quit">>, <<"p">> >>
    /\ collect_data.events["exec"][PRE][<<"quit">>].result_privilege_level
           = "privilege_exec"
    /\ ssh_session.chan.exited
    /\ ssh_session.current_privilege_level = "exec"
    /\ ssh_session.on_open_state = PRE
    /\ ssh_session.on_open_commands_list = << <<"quit">>, <<"p">> >>

\* C14: in a dialog at a step that is not hidden, an input other than the
\* step's recorded input ends the dialog (not interacting, no current event,
\* step index 0) and is answered with the unknown-input output of the
\* privilege level and phase the session is in, and with no step output;
\* nothing is raised.
C14_DialogAbort ==
    [][(/\ LineStep
        /\ InDialog
        /\ ~DialogStep.hidden_input
        /\ received'.channel_input # DialogStep.channel_input) =>
         /\ ~ssh_session'.interacting
         /\ ssh_session'.interacting_event = NoEvent
         /\ ssh_session'.interact_index = 0
         /\ received'.handlers =
                <<"data_received", "interactive_event", "unknown_event">>
         /\ ssh_session'.chan.writes = <<UnknownEntry.channel_output>>
         /\ received'.raised = NoError]_vars

\* the second step of the login dialog was sent "zz"
C14_Witness ==
    /\ received.channel_input = <<"zz">>
    /\ received.handlers =
           <<"data_received", "interactive_event", "unknown_event">>
    /\ received.raised = NoError
    /\ ~ssh_session.interacting
    /\ ssh_session.interacting_event = NoEvent
    /\ ssh_session.interact_index = 0
    /\ \E priv \in PrivilegeLevels, on_open_state \in OnOpenStates :
          ssh_session.chan.writes = <<UnknownOutput(priv, on_open_state)>>

\* the dialog the line is handled in, the one the session is inside or the
\* one the line starts
EventAt == IF InDialog THEN ssh_session.interacting_event ELSE LookedUp

StepAt == PyIndex(EventAt.event_steps, ssh_session.interact_index)

\* the line is handled at a step of a dialog and is what the step takes
MatchingStep ==
    /\ LineStep
    /\ InDialog \/ (LookupStep /\ LookedUp.type = "interactive")
    /\ IF StepAt.hidden_input THEN Credential
       ELSE received'.channel_input = StepAt.channel_input

\* C15: on an input that matches the step, the server writes that step's
\* output; at the last step it leaves the dialog, puts the step index at 0
\* and takes the privilege level the dialog names; at any other step it moves
\* the index on by one and hides the input (echo off) exactly when the step
\* it moved to is hidden.  No line moves the index otherwise than by one
\* forward or back to 0.
C15_DialogProgress ==
    [][LineStep =>
         /\ ssh_session'.interact_index \in
                {ssh_session.interact_index, ssh_session.interact_index + 1, 0}
         /\ MatchingStep =>
               /\ ssh_session'.chan.writes = <<StepAt.channel_output>>
               /\ IF ssh_session.interact_index + 1 = Len(EventAt.event_steps)
                  THEN /\ ~ssh_session'.interacting
                       /\ ssh_session'.interacting_event = NoEvent
                       /\ ssh_session'.interact_index = 0
                       /\ ssh_session'.current_privilege_level =
                              EventAt.result_privilege_level
                       /\ ~ssh_session'.hide_input
                  ELSE LET next == PyIndex(EventAt.event_steps,
                                           ssh_session.interact_index + 1)
                       IN /\ ssh_session'.interacting
                          /\ ssh_session'.interacting_event = EventAt
                          /\ ssh_session'.interact_index =
                                 ssh_session.interact_index + 1
                          /\ ssh_session'.hide_input = next.hidden_input
                          /\ ssh_session'.chan.echo = ~next.hidden_input
                          /\ ssh_session'.current_privilege_level =
                                 ssh_session.current_privilege_level]_vars

\* "en" started the enable dialog, whose next step is hidden
C15_Witness ==
    /\ received.channel_input = <<"en">>
    /\ received.handlers = <<"data_received", "interactive_event">>
    /\ ssh_session.interacting
    /\ ssh_session.interacting_event = EnableDialog
    /\ ssh_session.interact_index = 1
    /\ ssh_session.hide_input
    /\ ~ssh_session.chan.echo
    /\ ssh_session.chan.writes = <<EnableDialog.event_steps[1].channel_output>>

\* C16: an idle session that receives the bare line terminator writes the
\* prompt of its privilege level and does nothing else: no event handler
\* runs, and privilege level, phase, checklist and dialog state stay.
C16_ReturnRepaintsPrompt ==
    [][(LineStep /\ ~InDialog /\ received'.data = <<"\n">>) =>
         /\ received'.handlers = <<"data_received", "repaint_prompt">>
         /\ received'.raised = NoError
         /\ ssh_session'.chan.writes =
                <<collect_data.privilege_level_prompts[
                      ssh_session.current_privilege_level]>>
         /\ OnlyWrote]_vars

\* the bare line terminator was answered with the privilege_exec prompt after
\* the on-open input
C16_Witness ==
    /\ received.data = <<"\n">>
    /\ received.handlers = <<"data_received", "repaint_prompt">>
    /\ ssh_session.current_privilege_level = "privilege_exec"
    /\ ssh_session.on_open_state = POST
    /\ ssh_session.chan.writes = << <<"prompt", "privilege_exec">> >>

\* ========================================================== session claims
\* a step that leaves the ScrapliReplay context
ExitStep == patched_open /\ ~patched_open'

\* the session file holding the serialization of the instances
Serialized(instances) ==
    [exists |-> TRUE, empty |-> FALSE, sessions |-> serialize(instances)]

\* C17: leaving the context in record or overwrite mode leaves, in the session
\* file, the serialization of the wrapped instances, on any way out of the
\* body (after a call that raised as well); leaving it in replay mode leaves
\* the file as it was; either way Driver.open is no longer patched.
C17_ExitSaves ==
    [][ExitStep =>
         /\ replay_mode \in {"RECORD", "OVERWRITE"} =>
               session_file' = Serialized(wrapped_instances)
         /\ replay_mode = "REPLAY" => session_file' = session_file
         /\ ~patched_open']_vars

\* a step in which the test opens its connection
OpenStep ==
    /\ phase = "entered"
    /\ wrapped_instances = << >>
    /\ wrapped_instances' # << >>

\* the session file stores a session for the connection, with interactions
StoredSession ==
    /\ session_file.exists
    /\ ~session_file.empty
    /\ LET stored == GetSession(session_file.sessions,
                                create_instance_name(<< >>, scrapli_conn))
       IN stored.present /\ stored.interactions # << >>
    /\ \A i \in 1..Len(session_file.sessions) :
          session_file.sessions[i].session.interactions # << >>

\* C18: with block_network set, the channel is never set up to record (the
\* only set-up under which the transport is opened and a read or a write goes
\* to the endpoint); opening a connection skips the test when there is no
\* session file, and replays the stored session when there is one.
C18_BlockNetwork ==
    /\ [](block_network =>
            channel.read # "record" /\ channel.write # "record")
    /\ [][(OpenStep /\ block_network) =>
            /\ ~session_file.exists =>
                  /\ last'.raised = Skipped
                  /\ channel' = Unpatched
            /\ StoredSession =>
                  /\ last'.raised = NoError
                  /\ channel' = [read |-> "replay", write |-> "replay"]]_vars

\* C19: while block_network is set, from the construction to the exit of the
\* context, no step creates or rewrites the session file.
C19_NoSessionCreated ==
    [][block_network => session_file' = session_file]_vars

\* a step in which ScrapliReplay is constructed
InitStep == phase = "new" /\ last'.op = "init"

\* a stored instance has no interactions
AnyWithoutInteractions(file) ==
    \E i \in 1..Len(file.sessions) :
        file.sessions[i].session.interactions = << >>

\* C20: a requested mode other than record, replay and overwrite raises
\* ScrapliReplayException; otherwise nothing is raised and the mode is RECORD
\* when there is no session file, OVERWRITE when overwrite was requested and
\* the file exists, and, when record or replay was requested and the file
\* exists, RECORD if a stored instance has no interactions, else REPLAY.
C20_ModeResolution ==
    [][InitStep =>
         LET requested == last'.args.replay_mode
         IN IF requested \notin {"record", "replay", "overwrite"}
            THEN /\ last'.raised = ScrapliReplayException
                 /\ replay_mode' = replay_mode
            ELSE /\ last'.raised = NoError
                 /\ replay_mode' =
                       IF ~session_file.exists THEN "RECORD"
                       ELSE IF requested = "overwrite" THEN "OVERWRITE"
                       ELSE IF AnyWithoutInteractions(session_file) THEN "RECORD"
                       ELSE "REPLAY"]_vars

\* ================================================ sessions served together
\* what the isolation of sessions is about: privilege level, phase, checklist
\* and dialog cursor
Cursor(self) ==
    [current_privilege_level |-> self.current_privilege_level,
     on_open_state |-> self.on_open_state,
     on_open_commands_list |-> self.on_open_commands_list,
     interacting |-> self.interacting,
     interacting_event |-> self.interacting_event,
     interact_index |-> self.interact_index,
     hide_input |-> self.hide_input]

Complete(cd) ==
    /\ DOMAIN cd.events = PrivilegeLevels
    /\ DOMAIN cd.unknown_events = PrivilegeLevels

\* C23: a catalog that lacks events or unknown_events for a privilege level
\* and phase a session can reach is refused when it is loaded, so that a
\* session is only ever served from a catalog that has them; and no line
\* received fails for missing data.
C23_ValidatedAtLoad ==
    /\ [](Started => Complete(collect_data))
    /\ [](received.raised # KeyError)

\* =============================================== connections opened together
\* what the independence of instances is about: read buffer, write log and
\* replay cursors
Logs(inst) ==
    [read_log |-> inst.read_log,
     write_log |-> inst.write_log,
     device_outputs |-> inst.device_outputs,
     scrapli_inputs |-> inst.scrapli_inputs]

RecordedProfile == replay_session[1].session.connection_profile

\* C28: in replay mode, opening a connection whose host, port or transport is
\* not the recorded connection's raises ScrapliReplayConnectionProfileError,
\* and nothing else, and creates no cursor over the recorded interactions.
C28_ProfileMismatchOnOpen ==
    [][(/\ OpenStep
        /\ replay_mode = "REPLAY"
        /\ replay_session # << >>
        /\ \/ RecordedProfile.host # scrapli_conn.host
           \/ RecordedProfile.port # scrapli_conn.port
           \/ RecordedProfile.transport # scrapli_conn.transport_name)
         => /\ last'.raised = ScrapliReplayConnectionProfileError
            /\ wrapped_instances'[1].inst.device_outputs = NoIterator
            /\ wrapped_instances'[1].inst.scrapli_inputs = NoIterator]_vars

\* ============================================================ telnet claims
\* the writes of the username among those channel_authenticate_telnet made
UsernameWrites ==
    {k \in 1..Len(recorded.write_log) :
        recorded.write_log[k][1] = Text(scrapli_conn.auth_username)}

FirstUsernameWrite == CHOOSE k \in UsernameWrites : \A j \in UsernameWrites : k <= j

\* C27: after telnet_patch_update_log, the write log starts with the write
\* whose input is the username, everything logged before it being removed,
\* and the first interaction serialized holds all that was read up to that
\* write, dead reads included.
C27_TelnetAdjustment ==
    (phase = "authenticated" /\ UsernameWrites # {}) =>
        /\ TheInstance.write_log # << >>
        /\ TheInstance.write_log[1] = recorded.write_log[FirstUsernameWrite]
        /\ serialize_instance(TheInstance).session.interactions[1].channel_output
              = SubSeq(recorded.data, 1, recorded.write_log[FirstUsernameWrite][3])

\* the session stored for an instance, set up to be replayed from its k-th
\* interaction on
ReplayedFrom(inst, k) ==
    LET replayed == common_replay_mode(
                        ScrapliReplayInstance("REPLAY", inst.connection_profile,
                                              serialize_instance(inst).session))
    IN [replayed EXCEPT !.scrapli_inputs.rest = SubSeq(@, k, Len(@))]

\* C30: a recording and the recording of the same session made with another
\* password, passphrase and secondary password (each empty where the first is
\* empty) and other texts in the redacted writes serialize to the same
\* session; every redacted write is stored as "REDACTED"; and the replay
\* accepts a redacted write at its place whatever its text.
C30_SecretsNotRecorded ==
    wrapped_instances # << >> =>
        /\ serialize_instance(TheInstance).session = serialize_instance(twin).session
        /\ \A k \in 1..Len(TheInstance.write_log) :
              TheInstance.write_log[k][2] =>
                /\ serialize_instance(TheInstance).session.interactions[k]
                      .expected_channel_input = REDACTED
                /\ \A text \in {<<"pw1">>, <<"pw2">>, <<"u1">>, << >>} :
                      patched_write_replay(ReplayedFrom(TheInstance, k), text,
                                           TRUE).raised = NoError

\* ========================================================= collector claims
\* a step of collect() in one of these stages
CollectingStep(stages) ==
    /\ collector.pc = "collecting"
    /\ collector.stage \in stages
    /\ collector' # collector

\* the input _collect_standard_event is called with next
NextChannelInput == StageInputs(collector)[collector.k]

\* the bucket collect() stores into
PassKey == IF collector.pass = 1 THEN PRE ELSE POST

\* the event recorded for an input that closed the connection
ClosureRecorded(event) ==
    /\ event.closes_connection
    /\ event.channel_output = CLOSES_CONNECTION
    /\ ~event.returns_prompt

\* C24: when a collected command, or the unknown input, makes the device
\* close the connection, the event stored for it at every privilege level
\* has closes_connection true, channel_output "__CLOSES_CONNECTION__" and
\* returns_prompt false; the connection is open again after the step, the step
\* raises nothing and collect() goes on; and when collect() ends, the unknown
\* input and the command list have an event at every privilege level in both
\* buckets.
C24_ClosureRecovery ==
    /\ [][(CollectingStep({2, 4, 5, 8}) /\ NextChannelInput \in device.closing)
            => /\ \A priv \in PrivilegeLevels :
                    ClosureRecorded(
                        collector'.events[priv][PassKey][NextChannelInput])
               /\ device'.alive
               /\ collector'.raised = collector.raised
               /\ collector' = NextInput([collector' EXCEPT !.pc = collector.pc,
                                                           !.stage = collector.stage,
                                                           !.k = collector.k])]_vars
    /\ [][(CollectingStep({7}) /\ UNKNOWN_INPUT \in device.closing)
            => /\ \A priv \in PrivilegeLevels :
                    ClosureRecorded(collector'.unknown_events[priv][PassKey])
               /\ device'.alive
               /\ collector'.raised = collector.raised
               /\ collector'.stage = 8]_vars
    /\ [](collector.pc = "done" =>
            \A priv \in PrivilegeLevels, key \in OnOpenStates :
                /\ collector.unknown_events[priv][key] # None
                /\ \A i \in 1..Len(collector.channel_inputs) :
                      collector.channel_inputs[i]
                          \in DOMAIN collector.events[priv][key])

\* collect() has ended at a device that closes the connection on "show": the
\* closure is recorded in both passes and the dialog collected after it is
\* there
C24_Witness ==
    /\ collector.pc = "done"
    /\ <<"show">> \in device.closing
    /\ \A key \in OnOpenStates :
          /\ ClosureRecorded(collector.events["exec"][key][<<"show">>])
          /\ ClosureRecorded(collector.events["privilege_exec"][key][<<"show">>])
          /\ <<"enable">> \in DOMAIN collector.events["exec"][key]

\* what the passes of collect() have in common: the inputs collected
\* whatever the on-open routine is
EveryPassCollects == { <<"exit">>, <<"disable">>, <<"enable">>, <<"show">> }

\* C25: collect() goes through the whole collection twice: first on a
\* connection opened without the on-open routine (the pass itself calls the
\* routine once, in _collect_on_open_inputs, to learn its inputs), then, the
\* connection closed and opened with it, with on_open_enabled set; each step
\* of the first pass stores its events under pre_on_open and leaves
\* post_on_open alone, each step of the second the other way round, at every
\* privilege level; in the end both buckets of every level hold the
\* collected inputs and the unknown event.
C25_TwoPasses ==
    /\ [](collector.pc = "collecting" =>
            /\ collector.on_open_enabled = (collector.pass = 2)
            /\ device.alive
            /\ device.opened_with_on_open = (collector.pass = 2))
    /\ [][collector.pc = "collecting" =>
            /\ collector'.pass >= collector.pass
            /\ \A priv \in PrivilegeLevels :
                  \A key \in OnOpenStates \ {PassKey} :
                      /\ collector'.events[priv][key] = collector.events[priv][key]
                      /\ collector'.unknown_events[priv][key]
                             = collector.unknown_events[priv][key]]_vars
    /\ [][CollectingStep({2, 4, 5, 8}) =>
            \A priv \in PrivilegeLevels :
                NextChannelInput \in DOMAIN collector'.events[priv][PassKey]]_vars
    /\ [](collector.pc = "done" =>
            \A priv \in PrivilegeLevels, key \in OnOpenStates :
                /\ EveryPassCollects \subseteq DOMAIN collector.events[priv][key]
                /\ collector.unknown_events[priv][key] # None)

\* collect() has ended at a device whose paging the on-open routine turns
\* off: "show" stopped at the paging indicator in the first pass and returned
\* the prompt in the second
C25_Witness ==
    /\ collector.pc = "done"
    /\ device.on_open_routine.commands # << >>
    /\ ~collector.events["exec"][PRE][<<"show">>].returns_prompt
    /\ collector.events["exec"][POST][<<"show">>].returns_prompt
    /\ collector.unknown_events["exec"][PRE] # None
    /\ collector.unknown_events["exec"][POST] # None

\* events and unknown_events have both buckets for every privilege level
BothBuckets(events, unknown_events) ==
    /\ DOMAIN events = PrivilegeLevels
    /\ DOMAIN unknown_events = PrivilegeLevels
    /\ \A priv \in PrivilegeLevels :
          /\ DOMAIN events[priv] = OnOpenStates
          /\ DOMAIN unknown_events[priv] = OnOpenStates

\* C26: from the construction of the collector on, through every step of
\* collect(), events and unknown_events have a pre_on_open and a post_on_open
\* bucket for every privilege level of the driver and for no other, and so
\* has the catalog that dump() writes.
C26_CatalogShape ==
    /\ BothBuckets(collector.events, collector.unknown_events)
    /\ collector.dumped # None =>
          BothBuckets(collector.dumped.events, collector.dumped.unknown_events)

\* a catalog was written after both passes, with events in its buckets
C26_Witness ==
    /\ collector.pc = "dumped"
    /\ collector.dumped # None
    /\ \A priv \in PrivilegeLevels, key \in OnOpenStates :
          <<"show">> \in DOMAIN collector.dumped.events[priv][key]

\* the same inputs, in any order
SameInputs(inputs, commands) ==
    /\ Len(inputs) = Len(commands)
    /\ {inputs[i] : i \in 1..Len(inputs)} = {commands[i] : i \in 1..Len(commands)}

\* C29: _collect_on_open_inputs leaves in on_open_inputs the commands the
\* on-open routine sent in that call, one for each, and nothing else,
\* however many the routine sends; and _collect_on_close_inputs does the same
\* for on_close_inputs and the on-close routine.
C29_OnOpenInputs ==
    /\ [][CollectingStep({1}) =>
            SameInputs(collector'.on_open_inputs,
                       device.on_open_routine.commands)]_vars
    /\ [][CollectingStep({3}) =>
            SameInputs(collector'.on_close_inputs, OnCloseRoutine)]_vars

\* ================================================= failed replay writes
\* a write of the client to the replayed channel
ClientWriteStep ==
    /\ Replaying
    /\ last'.op = "write"
    /\ <<last, wrapped_instances>>' # <<last, wrapped_instances>>

\* C31: a replay write that raises ScrapliReplayExpectedInputError has taken
\* one expected input: after it the rest of the expected inputs is the rest
\* before it without its first, and the rest of the device outputs is as it
\* was; and every write that finds an expected input is accepted or refused
\* by that input, the first of the rest, alone.
C31_MismatchConsumesInput ==
    [][ClientWriteStep =>
        LET inst == TheInstance
            after == wrapped_instances'[1].inst
            w == last'.args
            written == IF w.redacted THEN REDACTED
                       ELSE SubCfgSession(w.channel_input)
        IN /\ last'.raised = ScrapliReplayExpectedInputError =>
                /\ after.scrapli_inputs.rest = Tail(inst.scrapli_inputs.rest)
                /\ InputsConsumed(after) = InputsConsumed(inst) + 1
                /\ after.device_outputs = inst.device_outputs
           /\ inst.scrapli_inputs.rest # << >> =>
                (last'.raised = NoError)
                   = (Head(inst.scrapli_inputs.rest) = <<written, w.redacted>>)]_vars

\* a write was refused, it has taken the first expected input, and another
\* expected input is waiting for the next write
C31_Witness ==
    /\ Replaying
    /\ last.op = "write"
    /\ last.raised = ScrapliReplayExpectedInputError
    /\ InputsConsumed(TheInstance) = 1
    /\ TheInstance.scrapli_inputs.rest # << >>

\* ==================================================== recorded bytes claims
RECURSIVE OutputOf(_)
\* the channel_output of the interactions, one after the other
OutputOf(interactions) ==
    IF interactions = << >> THEN << >>
    ELSE Head(interactions).channel_output \o OutputOf(Tail(interactions))

RECURSIVE StoredSlices(_, _, _)
\* the slices of the read buffer between the offsets of the write log, each
\* as _serialize stores a slice, and the bytes after the last offset as they
\* are, one after the other
StoredSlices(data, write_log, from) ==
    IF write_log = << >>
    THEN AsText(SubSeq(data, from + 1, Len(data)))
    ELSE SliceAsStored(SubSeq(data, from + 1, Head(write_log)[3]))
            \o StoredSlices(data, Tail(write_log), Head(write_log)[3])

\* the bytes are UTF-8 and hold no scrapli_cfg session name
CleanBytes(bytes) == ~DecodeFails(bytes) /\ ~SearchCfgSession(bytes)

\* an instance is recording, during the telnet login or after it
RecordingInstance ==
    /\ wrapped_instances # << >>
    /\ phase \in {"authenticating", "authenticated", "opened"}

C33_OffsetsInOrder ==
    /\ [](RecordingInstance =>
            LET write_log == TheInstance.write_log
            IN /\ \A k \in 1..Len(write_log) :
                     /\ write_log[k][3] >= 0
                     /\ write_log[k][3] <= Len(TheInstance.read_log.data)
               /\ \A j, k \in 1..Len(write_log) :
                     j < k => write_log[j][3] <= write_log[k][3])
    /\ [][(RecordingInstance /\ RecordingInstance') =>
            LET data == TheInstance.read_log.data
                after == wrapped_instances'[1].inst.read_log.data
            IN /\ Len(data) <= Len(after)
               /\ SubSeq(after, 1, Len(data)) = data]_vars

\* after the telnet adjustment has removed entries, the write log has entries
\* written before and after a read, and the test has read on
C33_Witness ==
    /\ phase = "opened"
    /\ wrapped_instances # << >>
    /\ Len(TheInstance.write_log) < Len(recorded.write_log)
    /\ Len(TheInstance.write_log) >= 2
    /\ TheInstance.write_log[1][3] < LastOffset(TheInstance.write_log)
    /\ LastOffset(TheInstance.write_log) < Len(TheInstance.read_log.data)

\* ======================================================= on-open phase claims
\* the list is the other one, or the other one without one of its entries
ShrunkFrom(list, other) ==
    \/ list = other
    \/ \E i \in 1..Len(other) :
          list = SubSeq(other, 1, i - 1) \o SubSeq(other, i + 1, Len(other))

\* the step handles a line whose catalog entry is a closing StandardEvent
ClosingStandardEventStep ==
    /\ LookupStep
    /\ LookedUp # NoEvent
    /\ Closing(LookedUp)
    /\ Ran("standard_event")

\* C34: a session in post_on_open has an empty on-open checklist; a step
\* leaves the checklist as it was or takes one entry off it, unless it handles
\* a closing StandardEvent, which puts on_open_inputs back; and only a step
\* that handles a closing StandardEvent takes a session from post_on_open to
\* pre_on_open.
C34_OnOpenPhase ==
    /\ [](ssh_session.on_open_state = POST =>
              ssh_session.on_open_commands_list = << >>)
    /\ [][Started' =>
            IF ClosingStandardEventStep
            THEN ssh_session'.on_open_commands_list = collect_data.on_open_inputs
            ELSE ShrunkFrom(ssh_session'.on_open_commands_list,
                            ssh_session.on_open_commands_list)]_vars
    /\ [][(ssh_session.on_open_state = POST /\ ssh_session'.on_open_state = PRE)
             => ClosingStandardEventStep]_vars

\* a closing event that is none of the on-open inputs has left the session
\* in pre_on_open with its two on-open inputs
C34_Witness ==
    /\ Started
    /\ received.handlers = <<"data_received", "standard_event">>
    /\ ssh_session.chan.exited
    /\ ssh_session.on_open_state = PRE
    /\ Len(ssh_session.on_open_commands_list) = 2
    /\ received.channel_input \notin
          {ssh_session.on_open_commands_list[i] : i \in 1..2}

\* ====================================================== dialog state claims
\* C35: between the lines it handles, a session is interacting exactly when it
\* has a current interactive event; when it is not, its step index is 0; when
\* it is, the index is one of the event's steps, from 0 to their number less
\* one; and its input is hidden (echo off) only when it is interacting and the
\* step at the index is a hidden one.
C35_DialogState ==
    Started =>
        /\ ssh_session.interacting = (ssh_session.interacting_event # NoEvent)
        /\ ssh_session.interacting =>
              /\ ssh_session.interacting_event.type = "interactive"
              /\ ssh_session.interact_index >= 0
              /\ ssh_session.interact_index
                    <= Len(ssh_session.interacting_event.event_steps) - 1
        /\ ~ssh_session.interacting => ssh_session.interact_index = 0
        /\ ssh_session.hide_input =>
              /\ ssh_session.interacting
              /\ DialogStep.hidden_input
        /\ ssh_session.hide_input = ~ssh_session.chan.echo

\* the "en" dialog stands at its second step, the password, with echo off,
\* after a wrong password
C35_Witness ==
    /\ Started
    /\ ssh_session.interacting
    /\ ssh_session.interacting_event = EnableDialog
    /\ ssh_session.interact_index = 1
    /\ ssh_session.hide_input
    /\ ~ssh_session.chan.echo
    /\ received.mismatches = 1

\* the outputs of the dialog's steps whose index is greater than k
OutputsPast(k) ==
    {DialogSteps[j + 1].channel_output : j \in (k + 1)..(Len(DialogSteps) - 1)}

\* C36: at a hidden step k of a dialog, an input other than the credential is
\* answered with the output of step k - 1 when there is one, and for every k,
\* 0 as well, with the output of no step after k; and the dialog goes on.
C36_MismatchOutput ==
    [][(LineStep /\ AtHiddenStep /\ ~Credential) =>
         LET k == ssh_session.interact_index
         IN /\ k >= 1 =>
                 ssh_session'.chan.writes = <<DialogSteps[k].channel_output>>
            /\ \A i \in 1..Len(ssh_session'.chan.writes) :
                 ssh_session'.chan.writes[i] \notin OutputsPast(k)
            /\ ssh_session'.interacting
            /\ ssh_session'.interacting_event = ssh_session.interacting_event]_vars

\* what the collector, or a hand, may have recorded as the input of a hidden
\* step
RecordedHiddenInputs ==
    {<<"__AUTH_SECONDARY__">>, <<"__REDACTED__">>, <<"scrapli">>, <<"zz">>, << >>}

\* the session, with this as the recorded input of the step its dialog is at
WithRecordedInput(self, interact_index, recorded_input) ==
    [self EXCEPT !.interacting_event.event_steps[interact_index + 1].channel_input =
                    recorded_input]

\* C37: a line received at a hidden step of a dialog is accepted, the step's
\* output written and the dialog moved past the step, exactly when it is
\* "scrapli"; any other line, the input recorded for the step included, keeps
\* the dialog at the step; and whatever had been recorded as the input of the
\* step, __AUTH_SECONDARY__ and __REDACTED__ included, the handler would have
\* left the same session, written the same and raised the same.
C37_HiddenStepCredential ==
    [][(LineStep /\ AtHiddenStep) =>
         LET k == ssh_session.interact_index
             self == [ssh_session EXCEPT !.chan.writes = << >>]
         IN /\ Credential =>
                 /\ AdvancedPastStep
                 /\ ssh_session'.chan.writes = <<DialogStep.channel_output>>
            /\ ~Credential => Retried
            /\ \A recorded_input \in RecordedHiddenInputs :
                 LET h == data_received(collect_data,
                                        WithRecordedInput(self, k, recorded_input),
                                        received'.data)
                 IN /\ h.raised = received'.raised
                    /\ h.self.chan = ssh_session'.chan
                    /\ h.self.interacting = ssh_session'.interacting
                    /\ h.self.interact_index = ssh_session'.interact_index
                    /\ h.self.hide_input = ssh_session'.hide_input
                    /\ h.self.current_privilege_level
                          = ssh_session'.current_privilege_level]_vars

\* the "en" dialog, whose password step is recorded as __AUTH_SECONDARY__,
\* was sent this very text at that step and stays there
C37_Witness ==
    /\ Started
    /\ received.channel_input = <<"__AUTH_SECONDARY__">>
    /\ received.mismatches >= 1
    /\ ssh_session.interacting
    /\ ssh_session.interacting_event = EnableDialog
    /\ DialogStep.hidden_input
    /\ DialogStep.channel_input = received.channel_input

\* ====================================================== unknown input claims
\* C38: a step that answers a line as unknown input leaves the on-open state
\* and the on-open checklist as they were, also when the unknown_events entry
\* closes the connection; the last it writes is the entry's output, it ends the
\* session exactly when the entry has closes_connection or the session had
\* ended already, and it leaves the session at the entry's
\* result_privilege_level, not at the initial privilege level.
C38_UnknownEventFrame ==
    [][(LineStep /\ Ran("unknown_event") /\ received'.raised = NoError) =>
         /\ ssh_session'.on_open_state = ssh_session.on_open_state
         /\ ssh_session'.on_open_commands_list = ssh_session.on_open_commands_list
         /\ ssh_session'.chan.writes # << >>
         /\ ssh_session'.chan.writes[Len(ssh_session'.chan.writes)]
               = UnknownEntry.channel_output
         /\ ssh_session'.chan.exited
               = (UnknownEntry.closes_connection \/ ssh_session.chan.exited)
         /\ ssh_session'.current_privilege_level
               = UnknownEntry.result_privilege_level]_vars

\* an unknown input has closed a session in post_on_open and left it there,
\* at a privilege level that is not the initial one
C38_Witness ==
    /\ Started
    /\ received.handlers = <<"data_received", "unknown_event">>
    /\ ssh_session.chan.exited
    /\ ssh_session.on_open_state = POST
    /\ ssh_session.current_privilege_level # collect_data.initial_privilege_level
    /\ collect_data.unknown_events["exec"][POST].closes_connection
    /\ ssh_session.chan.writes = <<UnknownOutput("exec", POST)>>


\* ------------------------------------------------ instance name claims
\* patched_open has stored the instance of one more driver
InstanceOpenStep ==
    /\ phase = "entered"
    /\ last'.op = "open"
    /\ Len(connections') = Len(connections) + 1

\* C39: whatever drivers a ScrapliReplay has opened, in whatever order, the
\* names of its instances differ from one another as strings, and an open
\* adds one entry to wrapped_instances and leaves every earlier entry as it was
C39_UniqueInstanceNames ==
    /\ [](\A i, j \in 1..Len(wrapped_instances) :
              i # j => NameText(wrapped_instances[i].name)
                           # NameText(wrapped_instances[j].name))
    /\ [][InstanceOpenStep =>
            /\ Len(wrapped_instances') = Len(wrapped_instances) + 1
            /\ \A i \in 1..Len(wrapped_instances) :
                   /\ wrapped_instances'[i] = wrapped_instances[i]
                   /\ NameText(wrapped_instances'[Len(wrapped_instances')].name)
                          # NameText(wrapped_instances[i].name)]_vars

\* three drivers of one host are open: uid "a", then uid "a:0", then uid "a"
\* again, named a:0, a:0:1 and a:2
C39_Witness ==
    /\ Len(wrapped_instances) = 3
    /\ wrapped_instances[1].name.uid = <<"a">>
    /\ wrapped_instances[1].name.n = "0"
    /\ wrapped_instances[2].name.uid = <<"a", ":", "0">>
    /\ wrapped_instances[2].name.n = "1"
    /\ wrapped_instances[3].name.uid = <<"a">>
    /\ wrapped_instances[3].name.n = "2"


\* ------------------------------------------------ telnet open claims
\* channel_authenticate_telnet has returned to patched_open
TelnetAuthenticatedStep ==
    /\ phase = "authenticating"
    /\ phase' \in {"authenticated", "failed"}
    /\ last'.op \in {"telnet_patch_update_log", "channel_authenticate_telnet"}

====
